---- MODULE Spec2Model ----
(***************************************************************************)
(* A model of stegPNG: the PngChunk value object (src/stegpng/png.py), the *)
(* chunk handler registry (src/stegpng/chunks.py) and the Png container   *)
(* (src/stegpng/png.py).                                                   *)
(*                                                                         *)
(* Bytes are integers 0..255 and byte strings are sequences of them.  A    *)
(* Python str is the sequence of its code points.  A 32-bit CRC is kept as *)
(* its four big-endian digits in base 256, because the integers of TLC    *)
(* are 32-bit signed; chunk lengths are ordinary integers.                 *)
(***************************************************************************)
EXTENDS Integers, Sequences, FiniteSets, TLC

VARIABLES
    chunk,      \* SpecChunk: one PngChunk object
    filebytes,  \* Png.__filebytes
    chunks,     \* Png.__chunks   (None until the first parse)
    file_end,   \* Png.__file_end (None until the first parse)
    edit,       \* Png.edit
    scanlines,  \* Png.__scanlines: the cached rows (None until the first read)
    last,       \* the last call: [op, err] with err the exception it raised
    ret,        \* the value the last call returned
    pre         \* what the object looked like just before the last call

vars == <<chunk, filebytes, chunks, file_end, edit, scanlines, last, ret, pre>>

----------------------------------------------------------------------------
(* Python values *)

None == [none |-> TRUE, v |-> <<>>]
Some(x) == [none |-> FALSE, v |-> x]

Min(a, b) == IF a <= b THEN a ELSE b
Max(a, b) == IF a >= b THEN a ELSE b

\* s[lo:hi] for lo, hi >= 0
PySlice(s, lo, hi) == SubSeq(s, Min(lo, Len(s)) + 1, Min(hi, Len(s)))

\* the position a negative index -k denotes in s
NegIdx(s, k) == Max(Len(s) - k, 0)

\* s[lo:]
PyFrom(s, lo) == PySlice(s, lo, Len(s))

\* bytes.decode('ascii') / str.encode('ascii') succeed on code points < 128
IsAscii(s) == \A i \in 1..Len(s) : s[i] < 128

\* struct.pack('>I', n)
packI(n) == <<(n \div 16777216) % 256, (n \div 65536) % 256, (n \div 256) % 256, n % 256>>

\* struct.unpack('>I', b)[0], defined on exactly four bytes
unpackI(b) == b[1] * 16777216 + b[2] * 65536 + b[3] * 256 + b[4]

\* F applied to the value of e, with e evaluated once
Bind(e, F(_)) == CHOOSE y \in {F(x) : x \in {e}} : TRUE

\* the result of a call: the object afterwards, the exception raised, the value
Ok(c, r) == [c |-> c, err |-> "none", ret |-> r]
Raise(c, e) == [c |-> c, err |-> e, ret |-> "None"]

----------------------------------------------------------------------------
(* zlib.crc32 (IEEE 802.3, reflected, polynomial EDB88320) *)

Xor8(a, b) ==
    LET bit(i) == ((a \div (2 ^ i)) + (b \div (2 ^ i))) % 2
    IN bit(0) + 2 * bit(1) + 4 * bit(2) + 8 * bit(3)
       + 16 * bit(4) + 32 * bit(5) + 64 * bit(6) + 128 * bit(7)

Xor32(x, y) == <<Xor8(x[1], y[1]), Xor8(x[2], y[2]), Xor8(x[3], y[3]), Xor8(x[4], y[4])>>

CrcShift(c) ==
    <<c[1] \div 2,
      (c[1] % 2) * 128 + c[2] \div 2,
      (c[2] % 2) * 128 + c[3] \div 2,
      (c[3] % 2) * 128 + c[4] \div 2>>

CrcPoly == <<237, 184, 131, 32>>

CrcBit(c0) ==
    Bind(c0, LAMBDA c : IF c[4] % 2 = 1 THEN Xor32(CrcShift(c), CrcPoly) ELSE CrcShift(c))

\* the table of a table-driven CRC-32: entry b is eight bit-steps from b
CrcTable ==
    [b \in 0..255 |->
        CrcBit(CrcBit(CrcBit(CrcBit(CrcBit(CrcBit(CrcBit(CrcBit(<<0, 0, 0, b>>))))))))]

CrcByte(c, b) == Xor32(CrcTable[Xor8(c[4], b)], <<0, c[1], c[2], c[3]>>)

\* the register c after the bytes s[lo..hi], by halves
CrcFold(s) ==
    LET reg[lo \in 1..(Len(s) + 1), hi \in 0..Len(s), c \in Seq(0..255)] ==
            IF lo > hi THEN c
            ELSE IF lo = hi THEN CrcByte(c, s[lo])
            ELSE reg[(lo + hi) \div 2 + 1, hi, reg[lo, (lo + hi) \div 2, c]]
    IN reg[1, Len(s), <<255, 255, 255, 255>>]

crc32(s0) ==
    Bind(s0, LAMBDA s : Bind(CrcFold(s), LAMBDA r : Xor32(r, <<255, 255, 255, 255>>)))

----------------------------------------------------------------------------
(* chunk types *)

T_IHDR == <<73, 72, 68, 82>>
T_PLTE == <<80, 76, 84, 69>>
T_IDAT == <<73, 68, 65, 84>>
T_IEND == <<73, 69, 78, 68>>
T_tEXt == <<116, 69, 88, 116>>
T_sRGB == <<115, 82, 71, 66>>
T_tIME == <<116, 73, 77, 69>>
T_gAMA == <<103, 65, 77, 65>>
T_zTXt == <<122, 84, 88, 116>>
T_cHRM == <<99, 72, 82, 77>>
T_pHYs == <<112, 72, 89, 115>>
T_iTXt == <<105, 84, 88, 116>>
T_bKGD == <<98, 75, 71, 68>>
T_sBIT == <<115, 66, 73, 84>>
T_sPLT == <<115, 80, 76, 84>>
T_tRNS == <<116, 82, 78, 83>>
T_iCCP == <<105, 67, 67, 80>>
\* a type no handler is registered for
T_abCd == <<97, 98, 67, 100>>
\* four bytes that are not ASCII
T_bad == <<200, 72, 68, 82>>

\* the keys of chunks.implementations
implementations ==
    {T_IHDR, T_PLTE, T_IDAT, T_IEND, T_tEXt, T_sRGB, T_tIME, T_gAMA, T_zTXt,
     T_cHRM, T_pHYs, T_iTXt, T_bKGD, T_sBIT, T_sPLT, T_tRNS, T_iCCP}

----------------------------------------------------------------------------
(* PngChunk *)

\* arguments a caller may hand to a setter
IntV(d) == [kind |-> "int", v |-> d]
StrV(s) == [kind |-> "str", v |-> s]
BytesV(b) == [kind |-> "bytes", v |-> b]
\* a value of the wrong Python type for the setter it is given to
WrongV == [kind |-> "wrong", v |-> <<>>]
\* an int that does not fit in 32 unsigned bits
HugeV == [kind |-> "huge", v |-> <<>>]

PngChunk_length(c) == unpackI(PySlice(c.bytes, 0, 4))

PngChunk_init(id, chunkbytes, e, auto) ==
    [id |-> id,
     bytes |-> PySlice(chunkbytes, 0, unpackI(PySlice(chunkbytes, 0, 4)) + 12),
     edit |-> e, auto_update |-> auto, dirty |-> FALSE]

PngChunk_bytes(c) == c.bytes

PngChunk_crc(c) == PyFrom(c.bytes, NegIdx(c.bytes, 4))

PngChunk_data(c) == PySlice(c.bytes, 8, NegIdx(c.bytes, 4))

PngChunk_type(c) ==
    IF IsAscii(PySlice(c.bytes, 4, 8))
    THEN Ok(c, PySlice(c.bytes, 4, 8))
    ELSE Raise(c, "UnicodeDecodeError")

compute_crc(c) == crc32(PySlice(c.bytes, 4, NegIdx(c.bytes, 4)))

check_crc(c) == compute_crc(c) = PngChunk_crc(c)

\* __changing(update_crc=False): the edit check, then the dirty mark
changing_plain(c) ==
    IF ~c.edit THEN Raise(c, "ReadOnly") ELSE Ok([c EXCEPT !.dirty = TRUE], "None")

crc_set(c, value) ==
    IF value.kind \notin {"int", "huge"} THEN Raise(c, "TypeError")
    ELSE Bind(changing_plain(c), LAMBDA r :
            IF r.err # "none" THEN r
            ELSE IF value.kind = "huge" THEN Raise(r.c, "struct.error")
            ELSE Ok([r.c EXCEPT !.bytes = PySlice(@, 0, NegIdx(@, 4)) \o value.v], "None"))

\* update_crc storing the CRC of the data alone
update_crc_data_only(c) == Bind(crc32(PngChunk_data(c)), LAMBDA d : crc_set(c, IntV(d)))

update_crc(c) == Bind(compute_crc(c), LAMBDA d : crc_set(c, IntV(d)))

changing(c, upd) ==
    IF ~c.edit THEN Raise(c, "ReadOnly")
    ELSE IF ~upd THEN changing_plain(c)
    ELSE Bind(update_crc(c), LAMBDA r :
            IF r.err # "none" THEN r ELSE Ok([r.c EXCEPT !.dirty = TRUE], "None"))

type_set(c, value) ==
    Bind(changing(c, FALSE), LAMBDA r :
        IF r.err # "none" THEN r
        ELSE IF value.kind # "str" THEN Raise(r.c, "TypeError")
        ELSE IF Len(value.v) # 4 THEN Raise(r.c, "ValueError")
        ELSE IF ~IsAscii(value.v) THEN Raise(r.c, "UnicodeEncodeError")
        ELSE Bind([r.c EXCEPT !.bytes = PySlice(@, 0, 4) \o value.v \o PyFrom(@, 8)],
                  LAMBDA c1 : changing(c1, c.auto_update)))

update_length(c) ==
    IF Len(c.bytes) - 12 < 0 THEN Raise(c, "Exception")
    ELSE Ok([c EXCEPT !.bytes = packI(Len(@) - 12) \o PyFrom(@, 4)], "None")

data_set(c, data) ==
    IF data.kind # "bytes" THEN Raise(c, "TypeError")
    ELSE Bind(changing(c, FALSE), LAMBDA r :
            IF r.err # "none" THEN r
            ELSE Bind([r.c EXCEPT !.bytes =
                          PySlice(@, 0, 8) \o data.v \o PyFrom(@, NegIdx(@, 4))],
                      LAMBDA c1 :
                        Bind(update_length(c1), LAMBDA u :
                            IF u.err # "none" THEN u
                            ELSE changing(u.c, c.auto_update))))

\* self.__bytes[4] & 0b000010000: an IndexError when the chunk has no fifth byte
iscritical(c) ==
    IF Len(c.bytes) < 5 THEN Raise(c, "IndexError")
    ELSE Ok(c, (c.bytes[5] \div 16) % 2 = 0)

isancillary(c) ==
    IF Len(c.bytes) < 5 THEN Raise(c, "IndexError")
    ELSE Ok(c, (c.bytes[5] \div 16) % 2 = 1)

is_supported(c) ==
    Bind(PngChunk_type(c), LAMBDA t :
        IF t.err # "none" THEN t ELSE Ok(c, t.ret \in implementations))

----------------------------------------------------------------------------
(* chunk handlers: chunks.ChunkImplementation and its subclasses *)

\* keys and values of getitem / setitem
KeyS(s) == [kind |-> "str", s |-> s, i |-> 0]
KeyI(i) == [kind |-> "int", s |-> "", i |-> i]
IntVal(i) == [kind |-> "int", i |-> i, t |-> <<>>]
TupVal(t) == [kind |-> "tuple", i |-> 0, t |-> t]
WrongVal == [kind |-> "wrong", i |-> 0, t |-> <<>>]
\* a str value, as its code points, and a bytes value
StrVal(s) == [kind |-> "str", i |-> 0, t |-> s]
BytesVal(b) == [kind |-> "bytes", i |-> 0, t |-> b]

\* the default max_length: 1 << 31 - 1 is 1 << 30
DefaultMaxLength == 1073741824

\* min_length and max_length as ChunkImplementation.__init__ leaves them
\* (length=0 is falsy, so IEND keeps the defaults)
LengthSpec(t) ==
    CASE t = T_IHDR -> [min |-> 13, max |-> 13]
      [] t = T_IDAT -> [min |-> 1, max |-> DefaultMaxLength]
      [] t = T_IEND -> [min |-> 0, max |-> DefaultMaxLength]
      [] t = T_PLTE -> [min |-> 3, max |-> 768]
      [] t = T_tEXt -> [min |-> 2, max |-> DefaultMaxLength]
      [] t = T_sRGB -> [min |-> 1, max |-> 1]
      [] t = T_tIME -> [min |-> 7, max |-> 7]
      [] t = T_gAMA -> [min |-> 4, max |-> 4]
      [] t = T_zTXt -> [min |-> 3, max |-> DefaultMaxLength]
      [] t = T_cHRM -> [min |-> 32, max |-> 32]
      [] t = T_pHYs -> [min |-> 9, max |-> 9]
      [] t = T_iTXt -> [min |-> 12, max |-> DefaultMaxLength]
      [] t = T_sBIT -> [min |-> 1, max |-> 4]
      [] t = T_sPLT -> [min |-> 2, max |-> DefaultMaxLength]
      [] t = T_tRNS -> [min |-> 2, max |-> DefaultMaxLength]
      [] t = T_iCCP -> [min |-> 3, max |-> DefaultMaxLength]

\* the lengths ChunkbKGD passes as a tuple: the handler then has no min_length
\* and _is_length_valid falls back on them
bKGD_lengths == {1, 2, 6}

empty_data(t) ==
    CASE t = T_IHDR -> <<0, 0, 0, 1, 0, 0, 0, 1, 1, 0, 0, 0, 0>>
      [] t = T_IDAT -> <<>>
      [] t = T_IEND -> <<>>
      [] t = T_PLTE -> <<0, 0, 0>>
      [] t = T_tEXt -> <<65, 0>>
      [] t = T_sRGB -> <<0>>
      [] t = T_tIME -> <<0, 0, 1, 1, 0, 0, 0>>
      [] t = T_gAMA -> <<0, 0, 0, 0>>
      [] t = T_zTXt -> <<65, 0, 120, 156, 3, 0, 0, 0, 0, 1>>
      [] t = T_cHRM -> [i \in 1..32 |-> 0]
      [] t = T_pHYs -> <<0>>
      [] t = T_iTXt -> <<65, 0, 0, 0, 0, 65, 0>>
      [] t = T_bKGD -> <<0>>
      [] t = T_sBIT -> <<0>>
      [] t = T_sPLT -> <<0, 0>>
      [] t = T_tRNS -> <<0, 0>>
      [] t = T_iCCP -> <<48, 0, 0>>

is_length_valid(t, c) ==
    LET n == PngChunk_length(c)
        in_range == LengthSpec(t).min <= n /\ n <= LengthSpec(t).max
    IN IF t = T_PLTE THEN n % 3 = 0 /\ in_range
       ELSE IF t = T_bKGD THEN n \in bKGD_lengths
       ELSE in_range

\* ChunkIHDR.__color_types: name, allowed bit depths (None for "Wrong!!"), channels
color_types ==
    <<[name |-> "Greyscale", depths |-> Some({1, 2, 4, 8, 16}), channels |-> Some(1)],
      [name |-> "Wrong!!", depths |-> None, channels |-> None],
      [name |-> "Truecolour", depths |-> Some({8, 16}), channels |-> Some(3)],
      [name |-> "Indexed-colour", depths |-> Some({1, 2, 4, 8}), channels |-> Some(1)],
      [name |-> "Greyscale with alpha", depths |-> Some({8, 16}), channels |-> Some(2)],
      [name |-> "Wrong!!", depths |-> None, channels |-> None],
      [name |-> "Truecolour with alpha", depths |-> Some({8, 16}), channels |-> Some(4)]>>

\* unpack('>I', b) and unpack('B', b): struct.error unless b has the exact size
unpackI_at(c, lo) ==
    LET b == PySlice(PngChunk_data(c), lo, lo + 4)
    IN IF Len(b) = 4 THEN Ok(c, unpackI(b)) ELSE Raise(c, "struct.error")

unpackB_at(c, lo) ==
    LET b == PySlice(PngChunk_data(c), lo, lo + 1)
    IN IF Len(b) = 1 THEN Ok(c, b[1]) ELSE Raise(c, "struct.error")

IHDR_colortype(c, field) ==
    Bind(unpackB_at(c, 9), LAMBDA code :
        IF code.err # "none" THEN code
        ELSE IF code.ret >= Len(color_types) THEN Raise(c, "IndexError")
        ELSE Ok(c, color_types[code.ret + 1][field]))

IHDR_get(c, key) ==
    IF key.kind # "str" THEN Raise(c, "KeyError")
    ELSE CASE key.s = "size" ->
                Bind(unpackI_at(c, 0), LAMBDA w :
                    Bind(unpackI_at(c, 4), LAMBDA h :
                        IF w.err # "none" THEN w
                        ELSE IF h.err # "none" THEN h
                        ELSE Ok(c, <<w.ret, h.ret>>)))
           [] key.s = "width" -> unpackI_at(c, 0)
           [] key.s = "height" -> unpackI_at(c, 4)
           [] key.s = "colortype_name" -> IHDR_colortype(c, "name")
           [] key.s = "colortype_code" -> unpackB_at(c, 9)
           [] key.s = "colortype_depth" -> IHDR_colortype(c, "depths")
           [] key.s = "bit_depth" -> unpackB_at(c, 8)
           [] key.s = "compression" -> unpackB_at(c, 10)
           [] key.s = "filter_method" -> unpackB_at(c, 11)
           [] key.s = "interlace" -> unpackB_at(c, 12)
           [] key.s = "channel_count" -> IHDR_colortype(c, "channels")
           [] OTHER -> Raise(c, "KeyError")

\* chunk.data = chunk.data[:lo] + pack(value) + chunk.data[lo + size:]
IHDR_put(c, lo, size, value) ==
    IF value.kind # "int" \/ value.i < 0 \/ (size = 1 /\ value.i > 255)
    THEN Raise(c, "struct.error")
    ELSE Bind(PySlice(PngChunk_data(c), 0, lo)
                \o (IF size = 4 THEN packI(value.i) ELSE <<value.i>>)
                \o PyFrom(PngChunk_data(c), lo + size),
              LAMBDA d : data_set(c, BytesV(d)))

IHDR_set(c, key, value) ==
    IF key.kind # "str" THEN Raise(c, "KeyError")
    ELSE CASE key.s = "size" ->
                IF value.kind # "tuple" THEN Raise(c, "TypeError")
                ELSE IF Len(value.t) < 1 THEN Raise(c, "IndexError")
                ELSE Bind(IHDR_put(c, 0, 4, IntVal(value.t[1])), LAMBDA w :
                        IF w.err # "none" THEN w
                        ELSE IF Len(value.t) < 2 THEN Raise(w.c, "IndexError")
                        ELSE IHDR_put(w.c, 4, 4, IntVal(value.t[2])))
           [] key.s = "width" -> IHDR_put(c, 0, 4, value)
           [] key.s = "height" -> IHDR_put(c, 4, 4, value)
           [] key.s = "colortype_code" -> IHDR_put(c, 9, 1, value)
           [] key.s = "bit_depth" -> IHDR_put(c, 8, 1, value)
           [] key.s = "compression" -> IHDR_put(c, 10, 1, value)
           [] key.s = "filter_method" -> IHDR_put(c, 11, 1, value)
           [] key.s = "interlace" -> IHDR_put(c, 12, 1, value)
           [] OTHER -> Raise(c, "KeyError")

IHDR_keys ==
    <<"size", "colortype_name", "colortype_code", "colortype_depth", "bit_depth",
      "compression", "filter_method", "interlace", "channel_count">>

\* the dictionary, as the values in the order of IHDR_keys; the first getter
\* that raises ends the call
IHDR_get_all(c) ==
    Bind([i \in 1..Len(IHDR_keys) |-> IHDR_get(c, KeyS(IHDR_keys[i]))], LAMBDA got :
        Bind({i \in 1..Len(IHDR_keys) : got[i].err # "none"}, LAMBDA failing :
            IF failing # {}
            THEN got[CHOOSE i \in failing : \A j \in failing : i <= j]
            ELSE Ok(c, [i \in 1..Len(IHDR_keys) |-> got[i].ret])))

IHDR_is_payload_valid(c) ==
    Bind(unpackB_at(c, 8), LAMBDA depth :
        Bind(IHDR_colortype(c, "depths"), LAMBDA allowed :
            IF depth.err # "none" THEN depth
            ELSE IF allowed.err # "none" THEN allowed
            ELSE IF allowed.ret.none THEN Raise(c, "TypeError")
            ELSE Ok(c, depth.ret \in allowed.ret.v)))

PLTE_get(c, key) ==
    IF key.kind # "int" \/ key.i < 0 \/ key.i > 256 THEN Raise(c, "IndexError")
    ELSE LET p == PySlice(PngChunk_data(c), key.i * 3, key.i * 3 + 3)
         IN IF Len(p) < 3 THEN Raise(c, "IndexError") ELSE Ok(c, p)

PLTE_set(c, key, value) ==
    IF key.kind # "int" \/ key.i < 0 \/ key.i > 256 THEN Raise(c, "ValueError")
    ELSE IF value.kind # "tuple" \/ Len(value.t) # 3 THEN Raise(c, "ValueError")
    ELSE IF \E i \in 1..3 : value.t[i] > 255 \/ value.t[i] < 0 THEN Raise(c, "ValueError")
    ELSE Bind(PySlice(PngChunk_data(c), 0, key.i * 3) \o value.t
                \o PyFrom(PngChunk_data(c), key.i * 3 + 3),
              LAMBDA d : data_set(c, BytesV(d)))

\* bytes.count(0) and bytes.find(0)
count0(d) == Cardinality({i \in 1..Len(d) : d[i] = 0})
find0(d) ==
    IF \A i \in 1..Len(d) : d[i] # 0 THEN -1
    ELSE (CHOOSE i \in 1..Len(d) : d[i] = 0 /\ \A j \in 1..(i - 1) : d[j] # 0) - 1

\* bytes.decode('latin1'): the code point of each byte
latin1_decode(b) == [i \in 1..Len(b) |-> b[i]]

\* str.encode('latin1'): defined on the code points below 256
latin1_encodable(s) == \A i \in 1..Len(s) : s[i] < 256
latin1_encode(s) == [i \in 1..Len(s) |-> s[i] % 256]

\* ChunktEXt.get: 'keyword' returns the text and 'text' returns the keyword
tEXt_get(c, key) ==
    IF key.kind # "str" \/ key.s \notin {"text", "keyword"} THEN Raise(c, "KeyError")
    ELSE Bind(PngChunk_data(c), LAMBDA d :
        IF count0(d) # 1 \/ find0(d) > 78 THEN Raise(c, "InvalidChunkStructureException")
        ELSE LET sep == find0(d)
                 keyword == latin1_decode(PySlice(d, 0, sep))
                 text == latin1_decode(PySlice(d, sep + 1, Len(d)))
             IN IF key.s = "keyword" THEN Ok(c, text) ELSE Ok(c, keyword))

tEXt_set(c, key, value) ==
    IF key.kind # "str" \/ key.s \notin {"text", "keyword"} THEN Raise(c, "KeyError")
    ELSE Bind(PngChunk_data(c), LAMBDA d :
        IF count0(d) # 1 THEN Raise(c, "InvalidChunkStructureException")
        ELSE IF value.kind # "str" THEN Raise(c, "AttributeError")
        ELSE IF ~latin1_encodable(value.t) THEN Raise(c, "UnicodeEncodeError")
        ELSE IF key.s = "text"
        THEN data_set(c, BytesV(PySlice(d, 0, find0(d) + 1) \o latin1_encode(value.t)))
        ELSE data_set(c, BytesV(latin1_encode(value.t) \o PyFrom(d, find0(d)))))

\* the dictionary of ChunktEXt.get_all, as the values of keyword and text
tEXt_get_all(c) ==
    Bind(tEXt_get(c, KeyS("keyword")), LAMBDA k :
        IF k.err # "none" THEN k
        ELSE Bind(tEXt_get(c, KeyS("text")), LAMBDA t :
            IF t.err # "none" THEN t ELSE Ok(c, <<k.ret, t.ret>>)))

\* chunk.data[i]
data_at(c, i) ==
    IF i < Len(PngChunk_data(c)) THEN Ok(c, PngChunk_data(c)[i + 1])
    ELSE Raise(c, "IndexError")

\* unpack('>h', chunk.data[0:2])[0]
tIME_year(c) ==
    LET b == PySlice(PngChunk_data(c), 0, 2)
        n == b[1] * 256 + b[2]
    IN IF Len(b) # 2 THEN Raise(c, "struct.error")
       ELSE Ok(c, IF n >= 32768 THEN n - 65536 ELSE n)

tIME_is_payload_valid(c) ==
    Bind(tIME_year(c), LAMBDA year :
        IF year.err # "none" THEN year
        ELSE IF Len(PngChunk_data(c)) < 7 THEN Raise(c, "IndexError")
        ELSE LET d == PngChunk_data(c)
                 month == d[3]
                 day == d[4]
                 max_day == IF month \in {1, 3, 5, 7, 8, 10, 12} THEN 31
                            ELSE IF month = 2
                            THEN (IF year.ret % 4 = 0
                                     /\ (year.ret % 400 = 0 \/ year.ret % 100 # 0)
                                  THEN 29 ELSE 28)
                            ELSE 30
             IN Ok(c, /\ 1 <= day /\ day <= max_day
                      /\ 1 <= month /\ month <= 12
                      /\ d[5] <= 23
                      /\ d[6] <= 59
                      /\ d[7] <= 60))

\* ChunksPLT._is_payload_valid: whether get_payload returns; the palette name
\* ends at find(0), the sample depth follows, the entries come after it
sPLT_is_payload_valid(c) ==
    Bind(PngChunk_data(c), LAMBDA d :
        LET sep == find0(d)
            l == Len(PyFrom(d, sep + 2))
        IN IF sep + 1 >= Len(d) THEN Ok(c, FALSE)
           ELSE IF d[sep + 2] = 8 THEN Ok(c, l % 6 = 0)
           ELSE IF d[sep + 2] = 16 THEN Ok(c, l % 8 = 0)
           ELSE Ok(c, FALSE))

\* ChunkImplementation._is_payload_valid and its overrides
is_payload_valid(t, c) ==
    CASE t = T_IHDR -> IHDR_is_payload_valid(c)
      [] t = T_PLTE -> Raise(c, "Exception")
      [] t = T_tEXt -> Ok(c, count0(PngChunk_data(c)) = 1 /\ find0(PngChunk_data(c)) <= 78)
      [] t = T_sRGB -> Bind(data_at(c, 0), LAMBDA v :
                            IF v.err # "none" THEN v ELSE Ok(c, v.ret \in 0..3))
      [] t = T_tIME -> tIME_is_payload_valid(c)
      [] t = T_gAMA -> Ok(c, TRUE)
      [] t = T_zTXt -> Ok(c, count0(PngChunk_data(c)) >= 1 /\ find0(PngChunk_data(c)) <= 78)
      [] t = T_cHRM -> Ok(c, TRUE)
      [] t = T_pHYs -> Bind(data_at(c, 8), LAMBDA v :
                            IF v.err # "none" THEN v ELSE Ok(c, v.ret \in 0..1))
      [] t = T_iTXt -> Ok(c, count0(PngChunk_data(c)) >= 3 /\ find0(PngChunk_data(c)) <= 78)
      [] t = T_bKGD -> Ok(c, PngChunk_length(c) \in {1, 2, 6})
      [] t = T_sBIT -> Ok(c, TRUE)
      [] t = T_sPLT -> sPLT_is_payload_valid(c)
      [] t = T_tRNS -> Raise(c, "TypeError")
      [] t = T_iCCP -> Bind(find0(PngChunk_data(c)), LAMBDA sep :
                            Ok(c, /\ 0 < sep /\ sep <= 79
                                  /\ sep < Len(PngChunk_data(c)) - 1))
      [] OTHER -> Ok(c, PngChunk_data(c) = <<>>)

\* ChunkImplementation.is_valid: length first, the payload only when it passes
impl_is_valid(t, c) ==
    IF ~is_length_valid(t, c) THEN Ok(c, FALSE) ELSE is_payload_valid(t, c)

impl_get(t, c, key) ==
    CASE t = T_IHDR -> IHDR_get(c, key)
      [] t = T_PLTE -> PLTE_get(c, key)
      [] t = T_IDAT -> IF key.kind = "str" /\ key.s = "data"
                       THEN Ok(c, PngChunk_data(c)) ELSE Raise(c, "KeyError")
      [] t = T_IEND -> Raise(c, "KeyError")
      [] t = T_tEXt -> tEXt_get(c, key)

impl_set(t, c, key, value) ==
    CASE t = T_IHDR -> IHDR_set(c, key, value)
      [] t = T_PLTE -> PLTE_set(c, key, value)
      [] t = T_IDAT -> Raise(c, "KeyError")
      [] t = T_IEND -> Raise(c, "KeyError")
      [] t = T_tEXt -> tEXt_set(c, key, value)

impl_get_all(t, c) ==
    CASE t = T_IHDR -> IHDR_get_all(c)
      [] t = T_PLTE ->
            Bind(impl_is_valid(t, c), LAMBDA v :
                IF v.err # "none" THEN v
                ELSE IF ~v.ret THEN Raise(c, "InvalidChunkStructureException")
                ELSE Ok(c, [i \in 1..(PngChunk_length(c) \div 3) |->
                                PLTE_get(c, KeyI(i - 1)).ret]))
      [] t = T_IDAT -> Ok(c, <<PngChunk_data(c)>>)
      [] t = T_IEND -> Ok(c, <<>>)
      [] t = T_tEXt -> tEXt_get_all(c)

\* __get_implementation falling back on the generic handler for a type that
\* is not registered
get_implementation_generic(c) ==
    Bind(is_supported(c), LAMBDA s :
        IF s.err # "none" THEN s
        ELSE IF ~s.ret THEN Ok(c, T_IEND)
        ELSE Ok(c, PngChunk_type(c).ret))

\* PngChunk.__get_implementation: the handler's type, or the exception
get_implementation(c) ==
    Bind(is_supported(c), LAMBDA s :
        IF s.err # "none" THEN s
        ELSE IF ~s.ret THEN Raise(c, "UnsupportedChunkException")
        ELSE Ok(c, PngChunk_type(c).ret))

is_valid(c) ==
    Bind(get_implementation(c), LAMBDA h :
        IF h.err # "none" THEN h ELSE impl_is_valid(h.ret, c))

getitem(c, key) ==
    Bind(get_implementation(c), LAMBDA h :
        IF h.err # "none" THEN h ELSE impl_get(h.ret, c, key))

setitem(c, key, value) ==
    Bind(get_implementation(c), LAMBDA h :
        IF h.err # "none" THEN h ELSE impl_set(h.ret, c, key, value))

get_payload(c) ==
    Bind(get_implementation(c), LAMBDA h :
        IF h.err # "none" THEN h ELSE impl_get_all(h.ret, c))

----------------------------------------------------------------------------------------------------------------------------------------------------------------------------------------------------
(* Png *)

PNG_SIGNATURE == <<137, 80, 78, 71, 13, 10, 26, 10>>

read_png_signature(data) == PySlice(data, 0, 8) = PNG_SIGNATURE

\* the result of a call on a Png p
POk(p, r) == [p |-> p, err |-> "none", ret |-> r]
PRaise(p, e) == [p |-> p, err |-> e, ret |-> "None"]

\* the loop of __read_chunks: start is the offset in the file, data the bytes
\* not yet consumed, acc the chunks decoded so far
RECURSIVE read_loop(_, _, _, _)
read_loop(fb, start, data, acc) ==
    IF ~(start <= Len(fb) - 1) THEN [err |-> "none", chunks |-> acc, rest |-> data]
    ELSE IF Len(PySlice(data, 0, 4)) # 4 THEN [err |-> "struct.error", chunks |-> acc, rest |-> data]
    ELSE Bind(unpackI(PySlice(data, 0, 4)), LAMBDA length :
         Bind(PngChunk_init(Len(acc) + 1, PySlice(data, 0, length + 12), TRUE, TRUE), LAMBDA c :
            IF PngChunk_type(c).err # "none"
            THEN [err |-> "InvalidPngStructureException", chunks |-> acc, rest |-> data]
            ELSE Bind(Append(acc, c), LAMBDA acc1 :
                 Bind(PyFrom(data, length + 12), LAMBDA data1 :
                    IF PngChunk_type(c).ret = T_IEND
                    THEN [err |-> "none", chunks |-> acc1, rest |-> data1]
                    ELSE read_loop(fb, start + length + 12, data1, acc1)))))

read_chunks(p) ==
    Bind(read_loop(p.filebytes, 8, PyFrom(p.filebytes, 8), <<>>), LAMBDA r :
        IF r.err # "none" THEN PRaise(p, r.err)
        ELSE POk([p EXCEPT !.chunks = Some(r.chunks), !.file_end = Some(r.rest)], "None"))

Png_chunks(p) ==
    IF p.chunks.none
    THEN Bind(read_chunks(p), LAMBDA r :
            IF r.err # "none" THEN r ELSE POk(r.p, r.p.chunks.v))
    ELSE POk(p, p.chunks.v)

Png_extra_data(p) ==
    IF p.file_end.none
    THEN Bind(read_chunks(p), LAMBDA r :
            IF r.err # "none" THEN r ELSE POk(r.p, r.p.file_end.v))
    ELSE POk(p, p.file_end.v)

\* the bytes of the chunks of a list, in order
ChunkBytes(list) ==
    LET cat[i \in 0..Len(list)] == IF i = 0 THEN <<>> ELSE cat[i - 1] \o list[i].bytes
    IN cat[Len(list)]

\* bytes without the trailer
Png_bytes_no_trailer(p) ==
    Bind(Png_chunks(p), LAMBDA r :
        IF r.err # "none" THEN r
        ELSE POk(r.p, PNG_SIGNATURE \o ChunkBytes(r.ret)))

Png_bytes(p) ==
    Bind(Png_chunks(p), LAMBDA r :
        IF r.err # "none" THEN r
        ELSE Bind(Png_extra_data(r.p), LAMBDA x :
                IF x.err # "none" THEN x
                ELSE POk(x.p, PNG_SIGNATURE \o ChunkBytes(r.ret) \o x.ret)))

reset(p) == read_chunks(p)

\* the setter storing the value without parsing first
extra_data_set_no_parse(p, value) ==
    IF value.kind # "bytes" THEN PRaise(p, "TypeError")
    ELSE POk([p EXCEPT !.file_end = Some(value.v)], "None")

extra_data_set(p, value) ==
    IF value.kind # "bytes" THEN PRaise(p, "TypeError")
    ELSE IF p.file_end.none
    THEN Bind(read_chunks(p), LAMBDA r :
            IF r.err # "none" THEN r
            ELSE POk([r.p EXCEPT !.file_end = Some(value.v)], "None"))
    ELSE POk([p EXCEPT !.file_end = Some(value.v)], "None")

\* list.insert(index, x)
ListInsert(list, index, x) ==
    LET n == Len(list)
        at == IF index < 0 THEN Max(n + index, 0) ELSE Min(index, n)
    IN SubSeq(list, 1, at) \o <<x>> \o SubSeq(list, at + 1, n)

\* self.__chunks.insert(index, chunk), on the attribute and not the property
chunks_insert(p, index, c) ==
    IF p.chunks.none THEN PRaise(p, "AttributeError")
    ELSE POk([p EXCEPT !.chunks = Some(ListInsert(@.v, index, c))], "None")

\* index is None or Some(i)
add_chunk(p, c, index) ==
    IF ~index.none THEN chunks_insert(p, index.v, c)
    ELSE Bind(PngChunk_type(c), LAMBDA t :
            IF t.err # "none" THEN PRaise(p, t.err)
            ELSE IF t.ret = T_IHDR THEN chunks_insert(p, 0, c)
            ELSE Bind(Png_chunks(p), LAMBDA r :
                    IF r.err # "none" THEN r
                    ELSE IF t.ret = T_IEND THEN chunks_insert(r.p, Len(r.ret), c)
                    ELSE chunks_insert(r.p, Len(r.ret) - 1, c)))

\* the chunk objects are told apart by their id
IndexOfId(list, id) ==
    IF \E i \in 1..Len(list) : list[i].id = id
    THEN CHOOSE i \in 1..Len(list) : list[i].id = id /\ \A j \in 1..(i - 1) : list[j].id # id
    ELSE 0

remove_chunk(p, id) ==
    Bind(Png_chunks(p), LAMBDA r :
        IF r.err # "none" THEN r
        ELSE Bind(IndexOfId(r.ret, id), LAMBDA i :
                IF i = 0 THEN PRaise(r.p, "ValueError")
                ELSE POk([r.p EXCEPT !.chunks =
                            Some(SubSeq(r.ret, 1, i - 1) \o SubSeq(r.ret, i + 1, Len(r.ret)))],
                         "None")))

\* __get_ihdr: the first chunk when it is an IHDR
get_ihdr(p) ==
    Bind(Png_chunks(p), LAMBDA r :
        IF r.err # "none" THEN r
        ELSE IF Len(r.ret) < 1 THEN PRaise(r.p, "InvalidPngStructureException")
        ELSE IF PngChunk_type(r.ret[1]).err # "none" THEN PRaise(r.p, PngChunk_type(r.ret[1]).err)
        ELSE IF PngChunk_type(r.ret[1]).ret # T_IHDR
        THEN PRaise(r.p, "InvalidPngStructureException")
        ELSE POk(r.p, r.ret[1]))

\* self.__get_ihdr()[key] = value
ihdr_setitem(p, key, value) ==
    Bind(get_ihdr(p), LAMBDA h :
        IF h.err # "none" THEN h
        ELSE Bind(setitem(h.ret, key, value), LAMBDA r :
                [p |-> [h.p EXCEPT !.chunks = Some([@.v EXCEPT ![1] = r.c])],
                 err |-> r.err, ret |-> "None"]))

width_set(p, value) == ihdr_setitem(p, KeyS("width"), value)
height_set(p, value) == ihdr_setitem(p, KeyS("height"), value)
size_set(p, value) == ihdr_setitem(p, KeyS("size"), value)

\* create_empty_chunk(t) for a str t, as object id
create_empty_chunk(id, t) ==
    Bind(type_set(PngChunk_init(id, <<0, 0, 0, 0, 0, 0, 0, 0, 0, 0, 0, 0>>, TRUE, TRUE), StrV(t)),
         LAMBDA r :
            IF r.err # "none" THEN r
            ELSE Bind(get_implementation(r.c), LAMBDA h :
                    IF h.err # "none" THEN h
                    ELSE data_set(r.c, BytesV(empty_data(h.ret)))))

----------------
(* inputs and the record of calls *)

\* the longest payload a caller writes with data_set
MaxData == 2

\* length | type | data | crc, with the right CRC or with four zero bytes
Frame(t, d, good) ==
    packI(Len(d)) \o t \o d \o (IF good THEN crc32(t \o d) ELSE <<0, 0, 0, 0>>)

Prefixes(s, lo) == {SubSeq(s, 1, n) : n \in lo..(Len(s) - 1)}

Sevens(n) == [i \in 1..n |-> 7]

NoCall == [op |-> "init", err |-> "none", arg |-> "None"]

PngIdle ==
    /\ filebytes = <<>>
    /\ chunks = None
    /\ file_end = None
    /\ edit = TRUE
    /\ scanlines = None

\* a method call on the chunk: r is its result
ChunkCall(op, arg, r) ==
    /\ chunk' = r.c
    /\ last' = [op |-> op, err |-> r.err, arg |-> arg]
    /\ ret' = r.ret
    /\ pre' = chunk
    /\ UNCHANGED <<filebytes, chunks, file_end, edit, scanlines>>

----------------------------------------------------------------------------
(* SpecChunk: one PngChunk, built from a byte slice, under its mutators *)

\* what PngChunk() may be given: a whole chunk, a chunk followed by more bytes,
\* or a chunk cut short (at least the four length bytes, which __init__ unpacks)
ChunkSlices ==
    {Frame(T_IDAT, <<1>>, TRUE),
     Frame(T_abCd, <<7>>, FALSE),
     Frame(T_IEND, <<>>, TRUE) \o <<9>>}
    \cup Prefixes(Frame(T_IDAT, <<1, 2>>, TRUE), 4)

TypeArgs == {StrV(T_IEND), StrV(<<73, 72>>), StrV(T_bad), WrongV}
DataArgs == {BytesV(Sevens(n)) : n \in 0..MaxData} \cup {WrongV}
CrcArgs == {IntV(<<1, 2, 3, 4>>), WrongV, HugeV}

InitChunk ==
    /\ \E b \in ChunkSlices, e \in BOOLEAN, a \in BOOLEAN :
          chunk = PngChunk_init(0, b, e, a)
    /\ PngIdle
    /\ last = NoCall
    /\ ret = "None"
    /\ pre = chunk

SetType == \E v \in TypeArgs : ChunkCall("type_set", v, type_set(chunk, v))
SetData == \E v \in DataArgs : ChunkCall("data_set", v, data_set(chunk, v))
SetCrc == \E v \in CrcArgs : ChunkCall("crc_set", v, crc_set(chunk, v))
UpdateCrc == ChunkCall("update_crc", "None", update_crc(chunk))
CheckCrc == ChunkCall("check_crc", "None", Ok(chunk, check_crc(chunk)))

NextChunk ==
    \/ SetType
    \/ SetData
    \/ SetCrc
    \/ UpdateCrc
    \/ CheckCrc

SpecChunk == InitChunk /\ [][NextChunk]_vars

----------------------------------------------------------------------------
(* SpecQuery: one PngChunk of each kind of type, under its queries and the *)
(* handler codec                                                           *)

\* the palette entries a chunk may hold before set(1, v) is no longer tried
MaxEntries == 2

QuerySlices ==
    {Frame(T_IHDR, empty_data(T_IHDR), TRUE),
     Frame(T_IDAT, <<1>>, TRUE),
     Frame(T_IEND, <<>>, TRUE),
     Frame(T_IEND, <<5>>, FALSE),
     Frame(T_PLTE, <<1, 2, 3>>, TRUE),
     Frame(T_PLTE, <<1, 2>>, TRUE),
     Frame(T_abCd, <<7>>, FALSE),
     Frame(T_abCd, <<>>, TRUE)}

GetKeys == {KeyS("width"), KeyS("data"), KeyS("bogus"), KeyI(0), KeyI(1)}
SetArgs ==
    {<<KeyS("width"), IntVal(2)>>, <<KeyS("width"), WrongVal>>,
     <<KeyS("bogus"), IntVal(1)>>, <<KeyI(0), TupVal(<<9, 9, 9>>)>>,
     <<KeyI(1), TupVal(<<9, 9, 9>>)>>}

InitQuery ==
    /\ \E b \in QuerySlices, e \in BOOLEAN, a \in BOOLEAN :
          chunk = PngChunk_init(0, b, e, a)
    /\ PngIdle
    /\ last = NoCall
    /\ ret = "None"
    /\ pre = chunk

IsCritical == ChunkCall("iscritical", "None", iscritical(chunk))
IsAncillary == ChunkCall("isancillary", "None", isancillary(chunk))
IsSupported == ChunkCall("is_supported", "None", is_supported(chunk))
IsValid == ChunkCall("is_valid", "None", is_valid(chunk))
GetItem == \E k \in GetKeys : ChunkCall("getitem", k, getitem(chunk, k))
SetItem ==
    \E a \in SetArgs :
        /\ Len(PngChunk_data(chunk)) < 3 * MaxEntries \/ a[1] # KeyI(1)
        /\ ChunkCall("setitem", a, setitem(chunk, a[1], a[2]))
GetPayload == ChunkCall("get_payload", "None", get_payload(chunk))

NextQuery ==
    \/ IsCritical
    \/ IsAncillary
    \/ IsSupported
    \/ IsValid
    \/ GetItem
    \/ SetItem
    \/ GetPayload

SpecQuery == InitQuery /\ [][NextQuery]_vars

----------------------------------------------------------------------------
(* SpecParse: a Png over a byte string, parsed lazily, its trailer set *)

MaxChunks == 2

\* the Png object as a record
Self ==
    [filebytes |-> filebytes, chunks |-> chunks, file_end |-> file_end, edit |-> edit,
     scanlines |-> scanlines]

\* no chunk is held outside of the Png
ChunkIdle == chunk = PngChunk_init(0, <<0, 0, 0, 0, 0, 0, 0, 0, 0, 0, 0, 0>>, TRUE, TRUE)

\* the chunk object c held by the caller, as it is once the Png has run: the
\* list holds the object itself, so what the Png wrote to it shows
Held(list, c) ==
    IF list.none THEN c
    ELSE IF IndexOfId(list.v, c.id) = 0 THEN c
    ELSE list.v[IndexOfId(list.v, c.id)]

\* a method call on the Png: r0 is its result
PngCall(op, arg, r0) ==
    \E r \in {r0} :
        /\ filebytes' = r.p.filebytes
        /\ chunks' = r.p.chunks
        /\ file_end' = r.p.file_end
        /\ edit' = r.p.edit
        /\ scanlines' = r.p.scanlines
        /\ last' = [op |-> op, err |-> r.err, arg |-> arg]
        /\ ret' = r.ret
        /\ pre' = Self
        /\ chunk' = Held(r.p.chunks, chunk)

\* the chunks the streams are made of: supported and not, with a right CRC
\* and a wrong one, and one whose type bytes are not ASCII
Alphabet ==
    {Frame(T_IHDR, empty_data(T_IHDR), TRUE),
     Frame(T_IDAT, <<1>>, TRUE),
     Frame(T_IEND, <<>>, TRUE),
     Frame(T_abCd, <<7>>, FALSE),
     Frame(T_bad, <<>>, TRUE)}

Streams(n) == UNION {[1..k -> Alphabet] : k \in 0..n}

Flat(stream) ==
    LET cat[i \in 0..Len(stream)] == IF i = 0 THEN <<>> ELSE cat[i - 1] \o stream[i]
    IN cat[Len(stream)]

\* what a file may hold after its chunks: nothing, a byte, a whole chunk
Trailers == {<<>>, <<9>>, Frame(T_IDAT, <<1>>, TRUE)}

\* files of whole chunks, and files cut in the middle of their last chunk
WholeFiles == {PNG_SIGNATURE \o Flat(s) \o t : s \in Streams(MaxChunks), t \in Trailers}

CutFiles ==
    {PNG_SIGNATURE \o Flat(s) \o t :
        s \in Streams(MaxChunks - 1), t \in Prefixes(Frame(T_IDAT, <<1, 2>>, TRUE), 1)}

ExtraArgs == {BytesV(<<>>), BytesV(<<4, 2>>), WrongV}

InitParse ==
    /\ filebytes \in WholeFiles \cup CutFiles
    /\ edit \in BOOLEAN
    /\ chunks = None
    /\ file_end = None
    /\ scanlines = None
    /\ ChunkIdle
    /\ last = NoCall
    /\ ret = "None"
    /\ pre = Self

GetChunks == PngCall("chunks", "None", Png_chunks(Self))

GetBytes == PngCall("bytes", "None", Png_bytes(Self))

GetExtra == PngCall("extra_data", "None", Png_extra_data(Self))

SetExtra == \E v \in ExtraArgs : PngCall("extra_data_set", v, extra_data_set(Self, v))

Reset == PngCall("reset", "None", reset(Self))

NextParse ==
    \/ GetChunks
    \/ GetBytes
    \/ GetExtra
    \/ SetExtra
    \/ Reset

SpecParse == InitParse /\ [][NextParse]_vars

----------------------------------------------------------------------------
(* SpecPng: a Png edited through its own methods, with one chunk held by the *)
(* caller to add to it                                                       *)

PngFiles ==
    {PNG_SIGNATURE \o Frame(T_IHDR, empty_data(T_IHDR), TRUE) \o Frame(T_IEND, <<>>, TRUE) \o <<9>>,
     PNG_SIGNATURE,
     PNG_SIGNATURE \o <<9>>}

\* the chunk object of the caller has id 0; parsed chunks are numbered from 1
HeldChunks ==
    {create_empty_chunk(0, T_IHDR).c,
     create_empty_chunk(0, T_IEND).c,
     PngChunk_init(0, Frame(T_abCd, <<7>>, FALSE), TRUE, TRUE)}

IndexArgs == {None, Some(1)}
DimArgs == {IntVal(2)}
SizeArgs == {TupVal(<<2, 2>>), WrongVal}
TrailerArgs == {BytesV(<<4, 2>>), WrongV}

InitPng ==
    /\ filebytes \in PngFiles
    /\ edit \in BOOLEAN
    /\ chunks = None
    /\ file_end = None
    /\ scanlines = None
    /\ chunk \in HeldChunks
    /\ last = NoCall
    /\ ret = "None"
    /\ pre = Self

ReadChunks == PngCall("chunks", "None", Png_chunks(Self))

ReadBytes == PngCall("bytes", "None", Png_bytes(Self))

\* the caller adds its chunk, which the Png does not hold yet
AddChunk ==
    \E i \in IndexArgs :
        /\ chunks.none \/ IndexOfId(chunks.v, chunk.id) = 0
        /\ PngCall("add_chunk", i, add_chunk(Self, chunk, i))

\* the caller removes a chunk of the list, or its own chunk
RemoveChunk ==
    \E id \in {chunk.id} \cup (IF chunks.none THEN {} ELSE {chunks.v[i].id : i \in 1..Len(chunks.v)}) :
        PngCall("remove_chunk", id, remove_chunk(Self, id))

SetTrailer == \E v \in TrailerArgs : PngCall("extra_data_set", v, extra_data_set(Self, v))

SetWidth == \E v \in DimArgs : PngCall("width_set", v, width_set(Self, v))

SetHeight == \E v \in DimArgs : PngCall("height_set", v, height_set(Self, v))

SetSize == \E v \in SizeArgs : PngCall("size_set", v, size_set(Self, v))

ResetPng == PngCall("reset", "None", reset(Self))

NextPng ==
    \/ ReadChunks
    \/ ReadBytes
    \/ AddChunk
    \/ RemoveChunk
    \/ SetTrailer
    \/ SetWidth
    \/ SetHeight
    \/ SetSize
    \/ ResetPng

SpecPng == InitPng /\ [][NextPng]_vars

----------------------------------------------------------------------------
(* properties of SpecParse *)

EndsWith(s, t) == Len(t) <= Len(s) /\ SubSeq(s, Len(s) - Len(t) + 1, Len(s)) = t

\* d is a sequence of whole chunks, up to and including the first IEND when
\* there is one; with ascii, the four type bytes of each are ASCII
RECURSIVE Framed(_, _)
Framed(d0, ascii) ==
    Bind(d0, LAMBDA d :
        \/ d = <<>>
        \/ /\ Len(d) >= 12
           /\ Len(d) >= unpackI(PySlice(d, 0, 4)) + 12
           /\ ascii => IsAscii(PySlice(d, 4, 8))
           /\ \/ PySlice(d, 4, 8) = T_IEND
              \/ Framed(PyFrom(d, unpackI(PySlice(d, 0, 4)) + 12), ascii))

WellFramed(P) == read_png_signature(P) /\ Framed(PyFrom(P, 8), TRUE)

WellFramedAnyType(P) == read_png_signature(P) /\ Framed(PyFrom(P, 8), FALSE)

\* the Png has not been parsed yet: nothing was read from it or set on it
Fresh(p) == p.chunks.none /\ p.file_end.none

\* C1: for every byte string made of the PNG signature followed by well-framed
\* chunks (types of four ASCII bytes, any CRC, with or without an IEND and bytes
\* after it), `bytes` read from a Png just constructed from it succeeds and
\* returns that byte string.
Thm_C1 ==
    (last.op = "bytes" /\ Fresh(pre) /\ WellFramed(filebytes))
        => (last.err = "none" /\ ret = filebytes)

\* bytes was read from a fresh Png of two chunks, one with a wrong CRC, and a trailer
Wit_C1 ==
    /\ last.op = "bytes" /\ Fresh(pre) /\ WellFramed(filebytes)
    /\ last.err = "none"
    /\ Len(chunks.v) = 2
    /\ \E i \in 1..2 : ~check_crc(chunks.v[i])
    /\ Len(file_end.v) > 0

\* C1 as stated, the type bytes of the chunks being any bytes.
Orig_C1 ==
    (last.op = "bytes" /\ Fresh(pre) /\ WellFramedAnyType(filebytes))
        => (last.err = "none" /\ ret = filebytes)

\* C2: the parsed chunk list holds nothing after its first IEND; extra_data of
\* a parsed file is every byte that follows that IEND, unchanged; bytes ends
\* with the extra data; after extra_data = v the chunk list is what it was and
\* bytes ends with v.
Thm_C2 ==
    /\ ~chunks.none =>
          \A i \in 1..(Len(chunks.v) - 1) : PngChunk_type(chunks.v[i]).ret # T_IEND
    /\ (last.op = "extra_data" /\ last.err = "none" /\ Fresh(pre)) =>
          /\ filebytes = PNG_SIGNATURE \o ChunkBytes(chunks.v) \o ret
          /\ ret # <<>> =>
                /\ Len(chunks.v) > 0
                /\ PngChunk_type(chunks.v[Len(chunks.v)]).ret = T_IEND
    /\ (last.op = "bytes" /\ last.err = "none") => EndsWith(ret, file_end.v)
    /\ (last.op = "extra_data_set" /\ last.err = "none") =>
          /\ chunks.v = Png_chunks(pre).ret
          /\ file_end.v = last.arg.v
          /\ EndsWith(Png_bytes(Self).ret, last.arg.v)
          /\ Png_chunks(Self).ret = Png_chunks(pre).ret

\* extra_data was set on a Png whose file holds a whole chunk after its IEND
Wit_C2 ==
    /\ last.op = "extra_data_set" /\ last.err = "none"
    /\ last.arg.v = <<4, 2>>
    /\ Len(chunks.v) = 2
    /\ PyFrom(filebytes, 8 + Len(ChunkBytes(chunks.v))) = Frame(T_IDAT, <<1>>, TRUE)

\* C9 as stated: a chunk list that parsing returned never holds a chunk
\* shorter than its declared length + 12.
Orig_C9 ==
    ~chunks.none =>
        \A i \in 1..Len(chunks.v) :
            Len(chunks.v[i].bytes) = PngChunk_length(chunks.v[i]) + 12

----------------------------------------------------------------------------
(* properties of SpecChunk *)

ChunkMutators == {"type_set", "data_set", "crc_set", "update_crc"}

\* C5 as stated, on a chunk that holds all the bytes it declares: constructed
\* with edit=false, each of type set, data set, crc set and update_crc fails
\* with the read-only error and leaves the bytes as they were, whatever the
\* argument.
Orig_C5 ==
    (last.op \in ChunkMutators /\ ~pre.edit
        /\ Len(pre.bytes) = PngChunk_length(pre) + 12)
        => (last.err = "ReadOnly" /\ chunk.bytes = pre.bytes)

\* C6: on an editable chunk check_crc is true right after update_crc and, with
\* auto_update, right after every successful type set or data set; a crc set
\* replaces the last four bytes by the value and leaves the others; check_crc
\* leaves the bytes as they were.
Thm_C6 ==
    /\ (last.op = "update_crc" /\ last.err = "none" /\ pre.edit) => check_crc(chunk)
    /\ (last.op \in {"type_set", "data_set"} /\ last.err = "none"
            /\ pre.edit /\ pre.auto_update) => check_crc(chunk)
    /\ (last.op = "crc_set" /\ last.err = "none" /\ pre.edit) =>
          /\ chunk.bytes = PySlice(pre.bytes, 0, NegIdx(pre.bytes, 4)) \o last.arg.v
          /\ Len(pre.bytes) >= 8 => PngChunk_crc(chunk) = last.arg.v
    /\ last.op = "check_crc" => chunk.bytes = pre.bytes

\* the data of a chunk whose stored CRC was wrong was set, and the CRC is right
Wit_C6 ==
    /\ last.op = "data_set" /\ last.err = "none"
    /\ pre.edit /\ pre.auto_update
    /\ ~check_crc(pre)
    /\ Len(PngChunk_data(chunk)) = 2
    /\ check_crc(chunk)

\* C7 as stated: the length view of a chunk is the number of bytes of its data.
Orig_C7 == PngChunk_length(chunk) = Len(PngChunk_data(chunk))

----------------------------------------------------------------------------
(* properties of SpecQuery *)

\* the type of c is four characters and no handler is registered for it
Unsupported(c) ==
    /\ PngChunk_type(c).err = "none"
    /\ Len(PngChunk_type(c).ret) = 4
    /\ PngChunk_type(c).ret \notin implementations

\* a Png whose file is the signature and the bytes b
PngOver(b) ==
    [filebytes |-> PNG_SIGNATURE \o b, chunks |-> None, file_end |-> None, edit |-> TRUE,
     scanlines |-> None]

\* C3: on a chunk whose type has no registered handler, is_supported is false,
\* is_valid, getitem, setitem and get_payload fail with the unsupported-chunk
\* error and leave the bytes as they were; a Png over the chunk parses it into
\* one chunk of the same bytes and serializes to the same file.
Thm_C3 ==
    Unsupported(pre) =>
        /\ last.op = "is_supported" => (last.err = "none" /\ ret = FALSE)
        /\ last.op \in {"is_valid", "getitem", "setitem", "get_payload"} =>
              (last.err = "UnsupportedChunkException" /\ chunk.bytes = pre.bytes)
        /\ Png_chunks(PngOver(chunk.bytes)).err = "none"
        /\ Len(Png_chunks(PngOver(chunk.bytes)).ret) = 1
        /\ Png_chunks(PngOver(chunk.bytes)).ret[1].bytes = chunk.bytes
        /\ Png_bytes(PngOver(chunk.bytes)).ret = PNG_SIGNATURE \o chunk.bytes

\* setitem was called on a chunk of type abCd
Wit_C3 ==
    /\ last.op = "setitem"
    /\ Unsupported(pre)
    /\ PngChunk_type(pre).ret = T_abCd
    /\ last.err = "UnsupportedChunkException"

\* C8 as stated: iscritical is true exactly when bit 0x20 of the first type
\* byte is zero, and isancillary is its negation.
Orig_C8 ==
    /\ (last.op = "iscritical" /\ last.err = "none") =>
          (ret = ((pre.bytes[5] \div 32) % 2 = 0))
    /\ (last.op = "isancillary" /\ last.err = "none") =>
          (ret = ((pre.bytes[5] \div 32) % 2 = 1))

----------------------------------------------------------------------------
(* properties of SpecPng *)

PngMutators ==
    {"add_chunk", "remove_chunk", "extra_data_set", "width_set", "height_set", "size_set"}

\* C4 as stated: on a Png constructed with edit=false every mutator of the Png
\* fails with the read-only error, and bytes is the same before and after.
Orig_C4 ==
    (last.op \in PngMutators /\ ~pre.edit) =>
        /\ last.err = "ReadOnly"
        /\ Png_bytes(Self).err = Png_bytes(pre).err
        /\ Png_bytes(Self).ret = Png_bytes(pre).ret

\* list without its element at position i
Without(list, i) == SubSeq(list, 1, i - 1) \o SubSeq(list, i + 1, Len(list))

\* the position, from 1, that C10 gives to a chunk of type t in a list of n chunks
DefaultPosition(t, n) ==
    IF t = T_IHDR THEN 1 ELSE IF t = T_IEND THEN n + 1 ELSE n

\* C10 as stated: add_chunk(c) without an index, on a Png whose file parses
\* into at least one chunk, succeeds and puts c first when it is an IHDR, last when it is an IEND and
\* just before the last chunk otherwise; the list grows by one and the chunks
\* it held keep their order.
Orig_C10 ==
    (last.op = "add_chunk" /\ last.arg.none /\ Png_chunks(pre).err = "none"
        /\ Len(Png_chunks(pre).ret) >= 1) =>
        /\ last.err = "none"
        /\ ~chunks.none
        /\ Len(chunks.v) = Len(Png_chunks(pre).ret) + 1
        /\ DefaultPosition(PngChunk_type(chunk).ret, Len(Png_chunks(pre).ret)) \in 1..Len(chunks.v)
        /\ chunks.v[DefaultPosition(PngChunk_type(chunk).ret, Len(Png_chunks(pre).ret))].id = chunk.id
        /\ Without(chunks.v, DefaultPosition(PngChunk_type(chunk).ret, Len(Png_chunks(pre).ret)))
              = Png_chunks(pre).ret

----------------------------------------------------------------------------
(* utils.paeth, and SpecPaeth: the predictor applied to bytes *)

Abs(x) == IF x < 0 THEN -x ELSE x

\* paeth with the distances kept signed
paeth_signed(a, b, c) ==
    LET p == a + b - c
        pa == p - a
        pb == p - b
        pc == p - c
    IN IF pa <= pb /\ pa <= pc THEN a ELSE IF pb <= pc THEN b ELSE c

paeth(a, b, c) ==
    LET p == a + b - c
        pa == Abs(p - a)
        pb == Abs(p - b)
        pc == Abs(p - c)
    IN IF pa <= pb /\ pa <= pc THEN a ELSE IF pb <= pc THEN b ELSE c

PaethArgs == {0, 10, 15, 20, 100, 150, 200, 255}

InitPaeth ==
    /\ ChunkIdle
    /\ PngIdle
    /\ last = NoCall
    /\ ret = "None"
    /\ pre = "None"

Paeth ==
    \E a \in PaethArgs, b \in PaethArgs, c \in PaethArgs :
        /\ last' = [op |-> "paeth", err |-> "none", arg |-> <<a, b, c>>]
        /\ ret' = paeth(a, b, c)
        /\ UNCHANGED <<chunk, filebytes, chunks, file_end, edit, scanlines, pre>>

NextPaeth == Paeth

SpecPaeth == InitPaeth /\ [][NextPaeth]_vars

\* C14: paeth(10, 20, 15) = 15, paeth(200, 100, 150) = 150, paeth(0, 0, 0) = 0
\* and paeth(255, 0, 0) = 255.
Thm_C14 ==
    last.op = "paeth" =>
        /\ last.arg = <<10, 20, 15>> => ret = 15
        /\ last.arg = <<200, 100, 150>> => ret = 150
        /\ last.arg = <<0, 0, 0>> => ret = 0
        /\ last.arg = <<255, 0, 0>> => ret = 255

\* the predictor was applied to 10, 20, 15
Wit_C14 == last.op = "paeth" /\ last.arg = <<10, 20, 15>> /\ ret = 15

\* C14 as stated: paeth(10, 20, 15) = 20, paeth(200, 100, 150) = 100,
\* paeth(0, 0, 0) = 0 and paeth(255, 0, 0) = 0.
Orig_C14 ==
    last.op = "paeth" =>
        /\ last.arg = <<10, 20, 15>> => ret = 20
        /\ last.arg = <<200, 100, 150>> => ret = 100
        /\ last.arg = <<0, 0, 0>> => ret = 0
        /\ last.arg = <<255, 0, 0>> => ret = 0

----------------------------------------------------------------------------
(* class ScanLine.  The rows are kept as a list; the _previous of row i is
   row i - 1 of the list and the _previous of the first row is None, which
   is how Png.scanlines links them. *)

\* the result of a call on row i of the list l: the rows afterwards (reading
\* a row fills the caches of the rows before it), the exception, the value
LOk(l, r) == [l |-> l, err |-> "none", ret |-> r]
LRaise(l, e) == [l |-> l, err |-> e, ret |-> "None"]

\* ScanLine(channelcount, bitdepth, previous, data=data, edit=e)
ScanLine_init(channelcount, bitdepth, data, e) ==
    [data |-> Some(data), filtertype |-> None, unfiltered |-> None, pixels |-> None,
     filtertype_dirty |-> TRUE, pixels_dirty |-> TRUE, data_dirty |-> FALSE,
     unfiltered_dirty |-> TRUE, edit |-> e,
     channelcount |-> channelcount, bitdepth |-> bitdepth]

\* ceil(channelcount * bitdepth / 8)
workingsize(s) == (s.channelcount * s.bitdepth + 7) \div 8

\* the filtertype getter on a row whose __data is up to date
filtertype_of_data(s) ==
    IF ~s.filtertype_dirty THEN [s |-> s, err |-> "none", ret |-> s.filtertype.v]
    ELSE IF s.data.v = <<>> THEN [s |-> s, err |-> "IndexError", ret |-> "None"]
    ELSE [s |-> [s EXCEPT !.filtertype = Some(s.data.v[1]), !.filtertype_dirty = FALSE],
          err |-> "none", ret |-> s.data.v[1]]

\* the loop of the unfiltered getter with the average of filter type 3
\* rounded up where the code rounds down
unfilter_loop_ceil(ft, body, hasprev, prev, ws) ==
    LET n == Len(body)
        step[idx \in 0..n, acc \in Seq(0..255)] ==
            IF idx = n THEN [err |-> "none", ret |-> acc]
            ELSE IF hasprev /\ ft \in {2, 3, 4} /\ idx >= Len(prev)
            THEN [err |-> "IndexError", ret |-> <<>>]
            ELSE IF ft \notin {1, 2, 3, 4}
            THEN [err |-> "UnsupportedFilterTypeException", ret |-> <<>>]
            ELSE
                LET byte == body[idx + 1]
                    a == IF idx < ws THEN 0 ELSE acc[idx - ws + 1]
                    b == IF ~hasprev \/ ft \notin {2, 3, 4} THEN 0 ELSE prev[idx + 1]
                    c == IF idx < ws \/ ~hasprev \/ ft # 4 THEN 0 ELSE prev[idx - ws + 1]
                    v == CASE ft = 1 -> (byte + a) % 256
                           [] ft = 2 -> (byte + b) % 256
                           [] ft = 3 -> (byte + ((a + b + 1) \div 2)) % 256
                           [] ft = 4 -> (byte + paeth(a, b, c)) % 256
                IN step[idx + 1, Append(acc, v)]
    IN step[0, <<>>]
\* the loop of the unfiltered getter over the bytes after the filter byte;
\* prev is the unfiltered previous row when the filter type reads it
unfilter_loop(ft, body, hasprev, prev, ws) ==
    LET n == Len(body)
        step[idx \in 0..n, acc \in Seq(0..255)] ==
            IF idx = n THEN [err |-> "none", ret |-> acc]
            ELSE IF hasprev /\ ft \in {2, 3, 4} /\ idx >= Len(prev)
            THEN [err |-> "IndexError", ret |-> <<>>]
            ELSE IF ft \notin {1, 2, 3, 4}
            THEN [err |-> "UnsupportedFilterTypeException", ret |-> <<>>]
            ELSE
                LET byte == body[idx + 1]
                    a == IF idx < ws THEN 0 ELSE acc[idx - ws + 1]
                    b == IF ~hasprev \/ ft \notin {2, 3, 4} THEN 0 ELSE prev[idx + 1]
                    c == IF idx < ws \/ ~hasprev \/ ft # 4 THEN 0 ELSE prev[idx - ws + 1]
                    v == CASE ft = 1 -> (byte + a) % 256
                           [] ft = 2 -> (byte + b) % 256
                           [] ft = 3 -> (byte + ((a + b) \div 2)) % 256
                           [] ft = 4 -> (byte + paeth(a, b, c)) % 256
                IN step[idx + 1, Append(acc, v)]
    IN step[0, <<>>]

\* the pixels of a row flattened to bytes
flatten(pixels) ==
    LET f[k \in 0..Len(pixels)] == IF k = 0 THEN <<>> ELSE f[k - 1] \o pixels[k]
    IN f[Len(pixels)]

RECURSIVE ScanLine_unfiltered(_, _)
ScanLine_unfiltered(l, i) ==
    IF ~l[i].unfiltered_dirty THEN LOk(l, l[i].unfiltered.v)
    ELSE IF ~l[i].data_dirty THEN
        Bind(filtertype_of_data(l[i]), LAMBDA f :
            IF f.err # "none" THEN LRaise(l, f.err)
            ELSE Bind([l EXCEPT ![i] = f.s], LAMBDA l1 :
                Bind(PyFrom(f.s.data.v, 1), LAMBDA body :
                    IF f.ret = 0 \/ body = <<>>
                    THEN LOk([l1 EXCEPT ![i].unfiltered = Some(body),
                                        ![i].unfiltered_dirty = FALSE], body)
                    ELSE Bind(IF i > 1 /\ f.ret \in {2, 3, 4}
                              THEN ScanLine_unfiltered(l1, i - 1)
                              ELSE LOk(l1, <<>>), LAMBDA pu :
                        IF pu.err # "none" THEN LRaise(pu.l, pu.err)
                        ELSE Bind(unfilter_loop(f.ret, body, i > 1, pu.ret,
                                                workingsize(f.s)), LAMBDA u :
                            IF u.err # "none" THEN LRaise(pu.l, u.err)
                            ELSE LOk([pu.l EXCEPT ![i].unfiltered = Some(u.ret),
                                                  ![i].unfiltered_dirty = FALSE],
                                     u.ret))))))
    ELSE IF ~l[i].pixels_dirty THEN
        IF l[i].bitdepth = 8
        THEN Bind(flatten(l[i].pixels.v), LAMBDA u :
                LOk([l EXCEPT ![i].unfiltered = Some(u),
                              ![i].unfiltered_dirty = FALSE], u))
        ELSE LRaise(l, "NotImplementedError")
    ELSE LRaise(l, "Exception")

\* the loop of the data getter over the unfiltered bytes u, with byte + x
\* where the code has byte - x
filter_loop_add(ft, u, hasprev, prev, ws) ==
    LET n == Len(u)
        step[idx \in 0..n, acc \in Seq(0..255)] ==
            IF idx = n THEN [err |-> "none", ret |-> acc]
            ELSE IF hasprev /\ ft \in {2, 3, 4} /\ idx >= Len(prev)
            THEN [err |-> "IndexError", ret |-> <<>>]
            ELSE IF ft \notin {1, 2, 3, 4}
            THEN [err |-> "UnsupportedFilterTypeException", ret |-> <<>>]
            ELSE
                LET byte == u[idx + 1]
                    a == IF idx < ws THEN 0 ELSE u[idx - ws + 1]
                    b == IF ~hasprev \/ ft \notin {2, 3, 4} THEN 0 ELSE prev[idx + 1]
                    c == IF idx < ws \/ ~hasprev \/ ft # 4 THEN 0 ELSE prev[idx - ws + 1]
                    v == CASE ft = 1 -> (byte + a) % 256
                           [] ft = 2 -> (byte + b) % 256
                           [] ft = 3 -> (byte + ((a + b) \div 2)) % 256
                           [] ft = 4 -> (byte + paeth(a, b, c)) % 256
                IN step[idx + 1, Append(acc, v)]
    IN step[0, <<>>]

\* the loop of the data getter over the unfiltered bytes u
filter_loop(ft, u, hasprev, prev, ws) ==
    LET n == Len(u)
        step[idx \in 0..n, acc \in Seq(0..255)] ==
            IF idx = n THEN [err |-> "none", ret |-> acc]
            ELSE IF hasprev /\ ft \in {2, 3, 4} /\ idx >= Len(prev)
            THEN [err |-> "IndexError", ret |-> <<>>]
            ELSE IF ft \notin {1, 2, 3, 4}
            THEN [err |-> "UnsupportedFilterTypeException", ret |-> <<>>]
            ELSE
                LET byte == u[idx + 1]
                    a == IF idx < ws THEN 0 ELSE u[idx - ws + 1]
                    b == IF ~hasprev \/ ft \notin {2, 3, 4} THEN 0 ELSE prev[idx + 1]
                    c == IF idx < ws \/ ~hasprev \/ ft # 4 THEN 0 ELSE prev[idx - ws + 1]
                    v == CASE ft = 1 -> (byte - a) % 256
                           [] ft = 2 -> (byte - b) % 256
                           [] ft = 3 -> (byte - ((a + b) \div 2)) % 256
                           [] ft = 4 -> (byte - paeth(a, b, c)) % 256
                IN step[idx + 1, Append(acc, v)]
    IN step[0, <<>>]

\* pack('B', self.filtertype) + bytes(filtered), stored in __data; the
\* filtertype getter of a row whose __data is stale never returns
store_data(l, i, filtered) ==
    IF l[i].filtertype_dirty THEN LRaise(l, "RecursionError")
    ELSE IF l[i].filtertype.v \notin 0..255 THEN LRaise(l, "struct.error")
    ELSE Bind(<<l[i].filtertype.v>> \o filtered, LAMBDA d :
            LOk([l EXCEPT ![i].data = Some(d)], d))

ScanLine_data(l, i) ==
    IF ~l[i].data_dirty THEN LOk(l, l[i].data.v)
    ELSE IF l[i].filtertype.none THEN LRaise(l, "AttributeError")
    ELSE IF l[i].filtertype.v = 0 THEN
        IF l[i].unfiltered.none THEN LRaise(l, "AttributeError")
        ELSE store_data(l, i, l[i].unfiltered.v)
    ELSE Bind(ScanLine_unfiltered(l, i), LAMBDA u :
        IF u.err # "none" THEN u
        ELSE IF u.ret = <<>> THEN store_data(u.l, i, <<>>)
        ELSE IF u.l[i].filtertype_dirty THEN LRaise(u.l, "RecursionError")
        ELSE Bind(IF i > 1 /\ u.l[i].filtertype.v \in {2, 3, 4}
                  THEN ScanLine_unfiltered(u.l, i - 1)
                  ELSE LOk(u.l, <<>>), LAMBDA pu :
            IF pu.err # "none" THEN LRaise(pu.l, pu.err)
            ELSE Bind(filter_loop(pu.l[i].filtertype.v, u.ret, i > 1, pu.ret,
                                  workingsize(pu.l[i])), LAMBDA d :
                IF d.err # "none" THEN LRaise(pu.l, d.err)
                ELSE store_data(pu.l, i, d.ret))))

ScanLine_filtertype(l, i) ==
    IF ~l[i].filtertype_dirty THEN LOk(l, l[i].filtertype.v)
    ELSE Bind(ScanLine_data(l, i), LAMBDA d :
        IF d.err # "none" THEN d
        ELSE IF d.ret = <<>> THEN LRaise(d.l, "IndexError")
        ELSE LOk([d.l EXCEPT ![i].filtertype = Some(d.ret[1]),
                             ![i].filtertype_dirty = FALSE], d.ret[1]))

ScanLine_filtertype_set(l, i, val) ==
    IF ~l[i].edit THEN LRaise(l, "Exception")
    ELSE IF val.kind # "int" THEN LRaise(l, "TypeError")
    ELSE Bind(ScanLine_unfiltered(l, i), LAMBDA b :
        IF b.err # "none" THEN b
        ELSE LOk([b.l EXCEPT ![i].filtertype = Some(val.i), ![i].data_dirty = TRUE],
                 "None"))

\* the bytes u cut into pixels of n channels; bytes left over are dropped
group(u, n) == [k \in 1..(Len(u) \div n) |-> SubSeq(u, (k - 1) * n + 1, k * n)]

ScanLine_pixels(l, i) ==
    IF ~l[i].pixels_dirty THEN LOk(l, l[i].pixels.v)
    ELSE IF l[i].bitdepth # 8 THEN LRaise(l, "NotImplementedError")
    ELSE Bind(ScanLine_unfiltered(l, i), LAMBDA u :
        IF u.err # "none" THEN u
        ELSE Bind(group(u.ret, u.l[i].channelcount), LAMBDA px :
            LOk([u.l EXCEPT ![i].pixels = Some(px), ![i].pixels_dirty = FALSE], px)))

\* ScanLine(channelcount, bitdepth, previous, content=(filtertype, pixels), edit=e)
ScanLine_init_content(channelcount, bitdepth, filtertype, pixels, e) ==
    [data |-> None, filtertype |-> Some(filtertype), unfiltered |-> None,
     pixels |-> Some(pixels),
     filtertype_dirty |-> FALSE, pixels_dirty |-> FALSE, data_dirty |-> TRUE,
     unfiltered_dirty |-> TRUE, edit |-> e,
     channelcount |-> channelcount, bitdepth |-> bitdepth]

ScanLine_data_set(l, i, val) ==
    IF ~l[i].edit THEN LRaise(l, "Exception")
    ELSE IF val.kind # "bytes" THEN LRaise(l, "TypeError")
    ELSE LOk([l EXCEPT ![i].data = Some(val.v), ![i].filtertype_dirty = TRUE,
                       ![i].pixels_dirty = TRUE], "None")

ScanLine_unfiltered_set(l, i, value) ==
    IF ~l[i].edit THEN LRaise(l, "Exception")
    ELSE IF value.kind # "bytes" THEN LRaise(l, "TypeError")
    ELSE Bind(ScanLine_unfiltered(l, i), LAMBDA u :
        IF u.err # "none" THEN u
        ELSE IF Len(value.v) # Len(u.ret) THEN LRaise(u.l, "ValueError")
        ELSE LOk([u.l EXCEPT ![i].unfiltered = Some(value.v), ![i].data_dirty = TRUE,
                             ![i].pixels_dirty = TRUE], "None"))

\* __checkpixels_args on a tuple of tuples of int: the pixels after the first
\* must have the length of the first
checkpixels_args(pixels) ==
    IF \E k \in 2..Len(pixels) : Len(pixels[k]) # Len(pixels[1])
    THEN [err |-> "ValueError", ret |-> FALSE]
    ELSE [err |-> "none", ret |-> TRUE]

ScanLine_pixels_set(l, i, value) ==
    IF ~l[i].edit THEN LRaise(l, "Exception")
    ELSE IF value.kind # "tuple" THEN LRaise(l, "TypeError")
    ELSE IF checkpixels_args(value.t).err # "none" THEN LRaise(l, checkpixels_args(value.t).err)
    ELSE LOk([l EXCEPT ![i].pixels = Some(value.t), ![i].data_dirty = TRUE,
                       ![i].unfiltered_dirty = TRUE], "None")

----------------------------------------------------------------------------
(* SpecLine: rows built from raw bytes, read and re-filtered *)

MaxRow == 2

RowBytes == {3, 250}

FilterBytes == 0..5

Bodies == UNION {[1..n -> RowBytes] : n \in 0..MaxRow}

\* the raw rows: no byte at all, or a filter byte and the filtered bytes
Rows == {<<>>} \cup {<<f>> \o b : f \in FilterBytes, b \in Bodies}

\* the rows put before a row: a filtered row as long as it, or a filter byte
\* alone
PrevFilters == {1}

PrevRows(r) ==
    {<<0>>} \cup {<<f>> \o b : f \in PrevFilters, b \in [1..(Len(r) - 1) -> RowBytes]}

Channels == {1, 2}

FilterArgs == {IntVal(0), WrongVal}

InitLine ==
    /\ ChunkIdle
    /\ filebytes = <<>>
    /\ chunks = None
    /\ file_end = None
    /\ edit \in BOOLEAN
    /\ \E n \in Channels, r1 \in Rows :
          \/ scanlines = Some(<<ScanLine_init(n, 8, r1, edit)>>)
          \/ /\ r1 # <<>>
             /\ \E r0 \in PrevRows(r1) :
                   scanlines = Some(<<ScanLine_init(n, 8, r0, edit),
                                      ScanLine_init(n, 8, r1, edit)>>)
    /\ last = NoCall
    /\ ret = "None"
    /\ pre = scanlines.v

\* a call on row i of the list: r0 is its result, pre the rows before it
LineCall(op, arg, r0) ==
    \E r \in {r0} :
        /\ scanlines' = Some(r.l)
        /\ last' = [op |-> op, err |-> r.err, arg |-> arg]
        /\ ret' = r.ret
        /\ pre' = scanlines.v
        /\ UNCHANGED <<chunk, filebytes, chunks, file_end, edit>>

GetUnfiltered ==
    \E i \in 1..Len(scanlines.v) :
        LineCall("unfiltered", <<i>>, ScanLine_unfiltered(scanlines.v, i))

GetFiltertype ==
    \E i \in 1..Len(scanlines.v) :
        LineCall("filtertype", <<i>>, ScanLine_filtertype(scanlines.v, i))

\* the filter type is written on the last row of the list, the rows before
\* it are the rows it is filtered against
SetFiltertype ==
    \E i \in {Len(scanlines.v)}, val \in FilterArgs :
        LineCall("filtertype_set", <<i, val>>, ScanLine_filtertype_set(scanlines.v, i, val))

GetData ==
    \E i \in 1..Len(scanlines.v) :
        LineCall("data", <<i>>, ScanLine_data(scanlines.v, i))

\* line.unfiltered; line.filtertype = line.filtertype; line.data: the row
\* filtered again with its own filter type
refilter(l, i) ==
    Bind(ScanLine_unfiltered(l, i), LAMBDA u :
        IF u.err # "none" THEN u
        ELSE Bind(ScanLine_filtertype(u.l, i), LAMBDA f :
            IF f.err # "none" THEN f
            ELSE Bind(ScanLine_filtertype_set(f.l, i, IntVal(f.ret)), LAMBDA w :
                IF w.err # "none" THEN w ELSE ScanLine_data(w.l, i))))

Refilter ==
    \E i \in 1..Len(scanlines.v) :
        LineCall("refilter", <<i>>, refilter(scanlines.v, i))

NextLine ==
    \/ GetUnfiltered
    \/ GetFiltertype
    \/ SetFiltertype
    \/ GetData
    \/ Refilter

SpecLine == InitLine /\ [][NextLine]_vars

\* the row before row i of l unfilters and is as long as row i
SamePrevious(l, i) ==
    i > 1 => /\ Len(l[i - 1].data.v) = Len(l[i].data.v)
             /\ ScanLine_unfiltered(l, i - 1).err = "none"

\* row i of l is an editable row as constructed from bytes that start with a
\* filter byte f in 0..4
RawRow(l, i, f) ==
    /\ l[i].edit
    /\ ~l[i].data_dirty
    /\ l[i].data.v # <<>>
    /\ l[i].data.v[1] = f
    /\ f \in 0..4

\* C13: for every filter type f in 0..4, every row filtered with f and every
\* previous row of the same length (or none), reading unfiltered, setting
\* filtertype to f and reading data returns the row, filter byte included.
Thm_C13 ==
    (/\ last.op = "refilter"
     /\ \E f \in 0..4 : RawRow(pre, last.arg[1], f)
     /\ SamePrevious(pre, last.arg[1]))
        => (last.err = "none" /\ ret = pre[last.arg[1]].data.v)

\* a Paeth row with two bytes after the filter byte was re-filtered over a
\* previous row that is not all zero
Wit_C13 ==
    /\ last.op = "refilter"
    /\ last.arg = <<2>>
    /\ RawRow(pre, 2, 4)
    /\ SamePrevious(pre, 2)
    /\ Len(pre[2].data.v) = 3
    /\ pre[1].data.v[1] = 1
    /\ pre[2].channelcount = 1
    /\ last.err = "none"
    /\ ret = pre[2].data.v

----------------------------------------------------------------------------
(* SpecText: the fields of tEXt chunks read and written, and the payload of
   a chunk written back field by field as tests/tester.py does *)

\* the payload read by get_payload as the (key, value) pairs written back:
\* the items of the dictionary in the order of its keys, the entries of a
\* palette under their indices
payload_items(t, payload) ==
    CASE t = T_IHDR ->
            [i \in 1..Len(IHDR_keys) |->
                <<KeyS(IHDR_keys[i]),
                  IF IHDR_keys[i] = "size" THEN TupVal(payload[i])
                  ELSE IF IHDR_keys[i] \in {"colortype_name", "colortype_depth"}
                  THEN WrongVal
                  ELSE IntVal(payload[i])>>]
      [] t = T_PLTE -> [i \in 1..Len(payload) |-> <<KeyI(i - 1), TupVal(payload[i])>>]
      [] t = T_IDAT -> <<<<KeyS("data"), BytesVal(payload[1])>>>>
      [] t = T_IEND -> <<>>
      [] t = T_tEXt -> <<<<KeyS("keyword"), StrVal(payload[1])>>,
                         <<KeyS("text"), StrVal(payload[2])>>>>

\* chunk.setitem(key, val) for the items from the k-th on; a KeyError is skipped for
\* a dictionary and ends the loop for a palette, as any other exception does
RECURSIVE write_back(_, _, _, _)
write_back(c, t, items, k) ==
    IF k > Len(items) THEN Ok(c, "None")
    ELSE Bind(setitem(c, items[k][1], items[k][2]), LAMBDA r :
            IF r.err = "none" \/ (r.err = "KeyError" /\ t # T_PLTE)
            THEN write_back(r.c, t, items, k + 1)
            ELSE r)

\* the body of the loop of test_img on a chunk of a supported type
rewrite(c) ==
    Bind(PngChunk_type(c), LAMBDA t :
        IF t.err # "none" THEN t
        ELSE Bind(type_set(c, StrV(t.ret)), LAMBDA r1 :
            IF r1.err # "none" THEN r1
            ELSE Bind(is_valid(r1.c), LAMBDA v :
                IF v.err # "none" THEN v
                ELSE Bind(update_crc(v.c), LAMBDA r2 :
                    IF r2.err # "none" THEN r2
                    ELSE Bind(get_payload(r2.c), LAMBDA pl :
                        IF pl.err # "none" THEN pl
                        ELSE write_back(pl.c, t.ret, payload_items(t.ret, pl.ret), 1))))))

TextSlices ==
    {Frame(T_tEXt, <<65, 0, 66>>, TRUE),
     Frame(T_tEXt, <<65, 0>>, TRUE),
     Frame(T_tEXt, <<65, 66>>, TRUE),
     Frame(T_tEXt, <<65, 0>>, FALSE),
     Frame(T_IHDR, empty_data(T_IHDR), TRUE),
     Frame(T_PLTE, <<1, 2, 3>>, TRUE),
     Frame(T_IDAT, <<1>>, TRUE),
     Frame(T_IEND, <<>>, TRUE)}

TextKeys == {KeyS("keyword"), KeyS("text"), KeyS("content")}

TextArgs ==
    {<<KeyS("text"), StrVal(<<67>>)>>, <<KeyS("text"), StrVal(<<>>)>>,
     <<KeyS("keyword"), StrVal(<<68>>)>>, <<KeyS("text"), StrVal(<<8364>>)>>,
     <<KeyS("keyword"), WrongVal>>, <<KeyS("content"), StrVal(<<67>>)>>}

InitText ==
    /\ \E b \in TextSlices, a \in BOOLEAN : chunk = PngChunk_init(0, b, TRUE, a)
    /\ PngIdle
    /\ last = NoCall
    /\ ret = "None"
    /\ pre = chunk

TextGet == \E k \in TextKeys : ChunkCall("getitem", k, getitem(chunk, k))
TextSet == \E a \in TextArgs : ChunkCall("setitem", a, setitem(chunk, a[1], a[2]))
TextPayload == ChunkCall("get_payload", "None", get_payload(chunk))
Rewrite == ChunkCall("rewrite", "None", rewrite(chunk))

NextText ==
    \/ TextGet
    \/ TextSet
    \/ TextPayload
    \/ Rewrite

SpecText == InitText /\ [][NextText]_vars

\* the payload of c is a keyword, one NUL and a text
IsText(c) ==
    /\ PngChunk_type(c).err = "none"
    /\ PngChunk_type(c).ret = T_tEXt
    /\ count0(PngChunk_data(c)) = 1

Keyword(c) == PySlice(PngChunk_data(c), 0, find0(PngChunk_data(c)))
Text(c) == PyFrom(PngChunk_data(c), find0(PngChunk_data(c)) + 1)

\* C15 as stated: on a tEXt payload keyword, NUL, text with exactly one NUL,
\* get("keyword") returns the bytes before the NUL and get("text") the bytes
\* after it; set("text", v) leaves keyword, NUL, v and set("keyword", k)
\* leaves k, NUL, text.
Orig_C15 ==
    /\ (last.op = "getitem" /\ IsText(pre) /\ last.arg = KeyS("keyword"))
            => (last.err = "none" /\ ret = Keyword(pre))
    /\ (last.op = "getitem" /\ IsText(pre) /\ last.arg = KeyS("text"))
            => (last.err = "none" /\ ret = Text(pre))
    /\ (last.op = "setitem" /\ IsText(pre) /\ last.arg[1] = KeyS("text")
            /\ last.arg[2].kind = "str" /\ latin1_encodable(last.arg[2].t))
            => (last.err = "none"
                /\ PngChunk_data(chunk) = Keyword(pre) \o <<0>> \o last.arg[2].t)
    /\ (last.op = "setitem" /\ IsText(pre) /\ last.arg[1] = KeyS("keyword")
            /\ last.arg[2].kind = "str" /\ latin1_encodable(last.arg[2].t))
            => (last.err = "none"
                /\ PngChunk_data(chunk) = last.arg[2].t \o <<0>> \o Text(pre))

\* C20 as stated, on the chunks is_valid() accepts: on a chunk of a supported
\* type whose stored CRC is right, setting the type to itself, update_crc()
\* and writing every field of get_payload() back leaves chunk.bytes as it was.
Orig_C20 ==
    (/\ last.op = "rewrite"
     /\ is_supported(pre).err = "none"
     /\ is_supported(pre).ret
     /\ is_valid(pre).err = "none"
     /\ is_valid(pre).ret
     /\ check_crc(pre))
        => (last.err = "none" /\ PngChunk_bytes(chunk) = PngChunk_bytes(pre))

----------------------------------------------------------------------------
(* SpecEmpty: the chunk create_empty_chunk makes for each registered type *)

\* chunk._set_empty_data()
set_empty_data(c) ==
    Bind(get_implementation(c), LAMBDA h :
        IF h.err # "none" THEN h ELSE data_set(c, BytesV(empty_data(h.ret))))

\* handler._is_length_valid(chunk), with the handler of the chunk's type
length_valid(c) ==
    Bind(get_implementation(c), LAMBDA h :
        IF h.err # "none" THEN h ELSE Ok(c, is_length_valid(h.ret, c)))

InitEmpty ==
    /\ \E t \in implementations : chunk = create_empty_chunk(0, t).c
    /\ PngIdle
    /\ last = NoCall
    /\ ret = "None"
    /\ pre = chunk

EmptyLengthValid == ChunkCall("_is_length_valid", "None", length_valid(chunk))
EmptyIsValid == ChunkCall("is_valid", "None", is_valid(chunk))
EmptyCheckCrc == ChunkCall("check_crc", "None", Ok(chunk, check_crc(chunk)))
EmptyIsSupported == ChunkCall("is_supported", "None", is_supported(chunk))
EmptyIsCritical == ChunkCall("iscritical", "None", iscritical(chunk))
EmptyData == ChunkCall("data", "None", Ok(chunk, PngChunk_data(chunk)))
EmptyLength == ChunkCall("length", "None", Ok(chunk, PngChunk_length(chunk)))
SetEmptyData == ChunkCall("_set_empty_data", "None", set_empty_data(chunk))

NextEmpty ==
    \/ EmptyLengthValid
    \/ EmptyIsValid
    \/ EmptyCheckCrc
    \/ EmptyIsSupported
    \/ EmptyIsCritical
    \/ EmptyData
    \/ EmptyLength
    \/ SetEmptyData

SpecEmpty == InitEmpty /\ [][NextEmpty]_vars

\* C18 as stated: for every registered type, the chunk create_empty_chunk
\* makes has a length the handler's length specification accepts, and
\* is_valid() reports it valid.
Orig_C18 ==
    /\ last.op = "_is_length_valid" => (last.err = "none" /\ ret = TRUE)
    /\ last.op = "is_valid" => (last.err = "none" /\ ret = TRUE)

----------------------------------------------------------------------------
(* image data of a Png: the IDAT stream, zlib, the rows and the pixels *)

\* zlib on the raw images of the model (two rows of a filter byte and two 8-bit
\* greyscale samples): <<data, the bytes compressobj(level=8, wbits=8) gives>>
zlib_streams ==
    {<<<<0, 10, 20, 1, 30, 40>>,
       <<24, 211, 99, 224, 18, 97, 148, 211, 0, 0, 0, 239, 0, 102>>>>,
     <<<<0, 50, 60, 0, 70, 80>>,
       <<24, 211, 99, 48, 178, 97, 112, 11, 0, 0, 2, 204, 1, 5>>>>,
     <<<<0, 0, 0, 0, 0, 0>>,
       <<24, 211, 99, 96, 0, 1, 0, 0, 6, 0, 1>>>>}

compress(data) == (CHOOSE e \in zlib_streams : e[1] = data)[2]

\* zlib.decompress: the data of the stream the bytes begin with (what follows
\* a whole stream is ignored); zlib.error when they do not begin with a whole
\* deflate stream (b'' does not)
decompress(data) ==
    IF \E e \in zlib_streams : PySlice(data, 0, Len(e[2])) = e[2]
    THEN [err |-> "none",
          ret |-> (CHOOSE e \in zlib_streams : PySlice(data, 0, Len(e[2])) = e[2])[1]]
    ELSE [err |-> "zlib.error", ret |-> <<>>]

get_chunks_by_type(p, name) ==
    Bind(Png_chunks(p), LAMBDA r :
        IF r.err # "none" THEN r
        ELSE IF \E i \in 1..Len(r.ret) : PngChunk_type(r.ret[i]).err # "none"
        THEN PRaise(r.p, "UnicodeDecodeError")
        ELSE POk(r.p, SelectSeq(r.ret, LAMBDA c : PngChunk_type(c).ret = name)))

\* the payloads of the chunks of a list, one after the other
ChunkData(list) ==
    LET cat[i \in 0..Len(list)] ==
            IF i = 0 THEN <<>> ELSE cat[i - 1] \o PngChunk_data(list[i])
    IN cat[Len(list)]

Png_datastream(p) ==
    Bind(get_chunks_by_type(p, T_IDAT), LAMBDA r :
        IF r.err # "none" THEN r ELSE POk(r.p, ChunkData(r.ret)))

Png_imagedata(p) ==
    Bind(Png_datastream(p), LAMBDA s :
        IF s.err # "none" THEN s
        ELSE Bind(decompress(s.ret), LAMBDA d :
                IF d.err # "none" THEN PRaise(s.p, d.err) ELSE POk(s.p, d.ret)))

\* the loop of the imagedata setter from chunk k on: data is the part of the
\* stream not stored yet, j the index (from 0) of the last IDAT met
RECURSIVE refill(_, _, _, _)
refill(list, k, data, j) ==
    IF k > Len(list) THEN [err |-> "none", list |-> list, data |-> data, j |-> j]
    ELSE Bind(PngChunk_type(list[k]), LAMBDA t :
        IF t.err # "none" THEN [err |-> t.err, list |-> list, data |-> data, j |-> j]
        ELSE IF t.ret # T_IDAT THEN refill(list, k + 1, data, j)
        ELSE Bind(Len(PngChunk_data(list[k])), LAMBDA l :
             Bind(data_set(list[k], BytesV(PySlice(data, 0, l))), LAMBDA w :
             Bind([list EXCEPT ![k] = w.c], LAMBDA list1 :
                IF w.err # "none"
                THEN [err |-> w.err, list |-> list1, data |-> data, j |-> k - 1]
                ELSE Bind(PyFrom(data, l), LAMBDA data1 :
                        refill(list1, k + 1, data1, k - 1))))))

\* an id no chunk object of the list has
NewId(list) ==
    LET top[i \in 0..Len(list)] == IF i = 0 THEN 0 ELSE Max(top[i - 1], list[i].id)
    IN top[Len(list)] + 1

\* the imagedata setter with the new IDAT put before the last IDAT met, not
\* after it
imagedata_set_before(p, data) ==
    IF data.kind # "bytes" THEN PRaise(p, "TypeError")
    ELSE Bind(compress(data.v), LAMBDA stream :
         Bind(Png_chunks(p), LAMBDA r :
            IF r.err # "none" THEN r
            ELSE Bind(refill(r.ret, 1, stream, 0), LAMBDA f :
                IF f.err # "none" THEN PRaise([r.p EXCEPT !.chunks = Some(f.list)], f.err)
                ELSE Bind(create_empty_chunk(NewId(f.list), T_IDAT), LAMBDA c :
                     Bind(data_set(c.c, BytesV(f.data)), LAMBDA d :
                        POk([r.p EXCEPT !.chunks = Some(ListInsert(f.list, f.j, d.c))],
                            "None"))))))

imagedata_set(p, data) ==
    IF data.kind # "bytes" THEN PRaise(p, "TypeError")
    ELSE Bind(compress(data.v), LAMBDA stream :
         Bind(Png_chunks(p), LAMBDA r :
            IF r.err # "none" THEN r
            ELSE Bind(refill(r.ret, 1, stream, 0), LAMBDA f :
                IF f.err # "none" THEN PRaise([r.p EXCEPT !.chunks = Some(f.list)], f.err)
                ELSE Bind(create_empty_chunk(NewId(f.list), T_IDAT), LAMBDA c :
                     Bind(data_set(c.c, BytesV(f.data)), LAMBDA d :
                        POk([r.p EXCEPT !.chunks = Some(ListInsert(f.list, f.j + 1, d.c))],
                            "None"))))))

\* self.__get_ihdr()[key]
ihdr_getitem(p, key) ==
    Bind(get_ihdr(p), LAMBDA h :
        IF h.err # "none" THEN h
        ELSE Bind(getitem(h.ret, key), LAMBDA g :
                [p |-> h.p, err |-> g.err, ret |-> g.ret]))

Png_width(p) == ihdr_getitem(p, KeyS("width"))
Png_height(p) == ihdr_getitem(p, KeyS("height"))
Png_size(p) == ihdr_getitem(p, KeyS("size"))

\* the rows cut out of the image data: the first with the Png's edit flag, the
\* others with the default of ScanLine
cut_lines(p, channel_count, depth, data, linesize) ==
    [i \in 1..Max(1, Len(data) \div linesize) |->
        ScanLine_init(channel_count, depth, PySlice(data, (i - 1) * linesize, i * linesize),
                      IF i = 1 THEN p.edit ELSE TRUE)]

\* the body of "if not self.__scanlines"
decode_scanlines(p) ==
    Bind(ihdr_getitem(p, KeyS("bit_depth")), LAMBDA depth :
    Bind(ihdr_getitem(p, KeyS("colortype_depth")), LAMBDA allowed :
    Bind(ihdr_getitem(p, KeyS("colortype_name")), LAMBDA name :
    Bind(Png_size(p), LAMBDA size :
    Bind(ihdr_getitem(p, KeyS("channel_count")), LAMBDA channel_count :
    Bind(Png_imagedata(p), LAMBDA data :
        IF depth.err # "none" THEN depth
        ELSE IF allowed.err # "none" THEN allowed
        ELSE IF allowed.ret.none THEN PRaise(p, "TypeError")
        ELSE IF depth.ret \notin allowed.ret.v THEN PRaise(p, "InvalidPngStructureException")
        ELSE IF name.err # "none" THEN name
        ELSE IF size.err # "none" THEN size
        ELSE IF channel_count.err # "none" THEN channel_count
        ELSE IF data.err # "none" THEN data
        ELSE Bind(IF name.ret = "Indexed-colour" THEN 8 ELSE depth.ret, LAMBDA d :
             Bind(size.ret[1] * ((d * channel_count.ret.v + 7) \div 8) + 1, LAMBDA linesize :
             Bind(cut_lines(p, channel_count.ret.v, d, data.ret, linesize), LAMBDA lines :
                POk([p EXCEPT !.scanlines = Some(lines)], lines))))))))))

Png_scanlines(p) ==
    Bind(ihdr_getitem(p, KeyS("interlace")), LAMBDA interlace :
        IF interlace.err # "none" THEN interlace
        ELSE IF interlace.ret # 0 THEN PRaise(interlace.p, "InvalidPngStructureException")
        ELSE IF interlace.p.scanlines.none \/ interlace.p.scanlines.v = <<>>
        THEN decode_scanlines(interlace.p)
        ELSE POk(interlace.p, interlace.p.scanlines.v))

\* the place of s[k] in s, from 1, or 0 when s[k] raises IndexError
PyItem(s, k) ==
    IF k >= 0 /\ k < Len(s) THEN k + 1
    ELSE IF k < 0 /\ k + Len(s) >= 0 THEN k + Len(s) + 1
    ELSE 0

\* png.scanlines[y].pixels, read by the caller
scanline_pixels(p, y) ==
    Bind(Png_scanlines(p), LAMBDA s :
        IF s.err # "none" THEN s
        ELSE IF PyItem(s.ret, y) = 0 THEN PRaise(s.p, "IndexError")
        ELSE Bind(ScanLine_pixels(s.ret, PyItem(s.ret, y)), LAMBDA px :
                [p |-> [s.p EXCEPT !.scanlines = Some(px.l)], err |-> px.err, ret |-> px.ret]))

\* isinstance(position, get_args(_PixelPos)): the classes are tuple[int, int] and
\* list[int, int], and isinstance raises TypeError on a parameterized generic
\* whatever the object is
isinstance_PixelPos(position) == [err |-> "TypeError", ret |-> position.kind = "tuple"]

validate_pixel_pos(p, position) ==
    Bind(isinstance_PixelPos(position), LAMBDA t :
        IF t.err # "none" THEN PRaise(p, t.err)
        ELSE IF ~t.ret THEN PRaise(p, "TypeError")
        ELSE IF Len(position.t) # 2 THEN PRaise(p, "ValueError")
        ELSE Bind(Png_size(p), LAMBDA size :
            IF size.err # "none" THEN size
            ELSE IF position.t[1] >= size.ret[1] THEN PRaise(size.p, "IndexError")
            ELSE IF position.t[2] >= size.ret[2] THEN PRaise(size.p, "IndexError")
            ELSE POk(size.p, position.t)))

\* getpixel once the row's pixels are read: the palette entry of an indexed
\* pixel, the sample alone of a one-channel pixel
resolve_pixel(p, ihdr, pixel) ==
    Bind(getitem(ihdr, KeyS("colortype_code")), LAMBDA code :
    Bind(getitem(ihdr, KeyS("channel_count")), LAMBDA channel_count :
    Bind(get_chunks_by_type(p, T_PLTE), LAMBDA plte :
        IF code.err # "none" THEN PRaise(p, code.err)
        ELSE IF code.ret = 3 /\ Len(plte.ret) = 0
        THEN PRaise(p, "InvalidPngStructureException")
        ELSE IF code.ret = 3
        THEN Bind(getitem(plte.ret[1], KeyI(pixel[1])), LAMBDA entry :
                [p |-> p, err |-> entry.err, ret |-> entry.ret])
        ELSE IF channel_count.err # "none" THEN PRaise(p, channel_count.err)
        ELSE IF channel_count.ret.v = 1 THEN POk(p, pixel[1])
        ELSE POk(p, pixel))))

getpixel(p, position) ==
    Bind(validate_pixel_pos(p, position), LAMBDA xy :
        IF xy.err # "none" THEN xy
        ELSE Bind(get_ihdr(xy.p), LAMBDA ihdr :
            IF ihdr.err # "none" THEN ihdr
            ELSE Bind(scanline_pixels(ihdr.p, xy.ret[2]), LAMBDA pixels :
                IF pixels.err # "none" THEN pixels
                ELSE IF PyItem(pixels.ret, xy.ret[1]) = 0 THEN PRaise(pixels.p, "IndexError")
                ELSE resolve_pixel(pixels.p, ihdr.ret,
                                   pixels.ret[PyItem(pixels.ret, xy.ret[1])]))))

\* Png(data), not parsed yet
Png_init(data) ==
    [filebytes |-> data, chunks |-> None, file_end |-> None, edit |-> TRUE, scanlines |-> None]

\* create_empty_png with the IDAT after the IEND
create_empty_png_idat_last ==
    Png_init(PNG_SIGNATURE \o create_empty_chunk(0, T_IHDR).c.bytes
                \o create_empty_chunk(0, T_IEND).c.bytes
                \o create_empty_chunk(0, T_IDAT).c.bytes)
create_empty_png ==
    Png_init(PNG_SIGNATURE \o create_empty_chunk(0, T_IHDR).c.bytes
                \o create_empty_chunk(0, T_IDAT).c.bytes
                \o create_empty_chunk(0, T_IEND).c.bytes)

----------------------------------------------------------------------------
(* SpecImage: a Png holding a 2 x 2 image, its image data read and written *)

\* the most chunks a Png has when its image data is written
MaxImageChunks == 5

\* the IHDR of a greyscale image of 2 x 2 pixels, 8 bits per sample
ImageHeader == Frame(T_IHDR, <<0, 0, 0, 2, 0, 0, 0, 2, 8, 0, 0, 0, 0>>, TRUE)

\* a file whose IDAT chunks hold the stream of data, cut after `cut` bytes
\* when cut > 0
ImageFile(data, cut) ==
    PNG_SIGNATURE \o ImageHeader
        \o (IF cut = 0 THEN Frame(T_IDAT, compress(data), TRUE)
            ELSE Frame(T_IDAT, PySlice(compress(data), 0, cut), TRUE)
                    \o Frame(T_IDAT, PyFrom(compress(data), cut), TRUE))
        \o Frame(T_IEND, <<>>, TRUE)

ImageFiles ==
    {ImageFile(<<0, 10, 20, 1, 30, 40>>, 0),
     ImageFile(<<0, 10, 20, 1, 30, 40>>, 5),
     ImageFile(<<0, 0, 0, 0, 0, 0>>, 0)}

ImageArgs == {BytesV(<<0, 50, 60, 0, 70, 80>>), BytesV(<<0, 0, 0, 0, 0, 0>>), WrongV}

PixelArgs == {TupVal(<<0, 0>>), TupVal(<<1, 1>>), TupVal(<<-1, 0>>), TupVal(<<0, -1>>),
              TupVal(<<2, 0>>), TupVal(<<0, 2>>), WrongVal}

RowArgs == {-1, 0, 1, 2}

InitImage ==
    /\ filebytes \in ImageFiles
    /\ edit = TRUE
    /\ chunks = None
    /\ file_end = None
    /\ scanlines = None
    /\ ChunkIdle
    /\ last = NoCall
    /\ ret = "None"
    /\ pre = Self

CreateEmptyPng == PngCall("create_empty_png", "None", POk(create_empty_png, "None"))

GetImagedata == PngCall("imagedata", "None", Png_imagedata(Self))

SetImagedata ==
    \E d \in ImageArgs :
        /\ chunks.none \/ Len(chunks.v) < MaxImageChunks
        /\ PngCall("imagedata_set", d, imagedata_set(Self, d))

GetScanlines == PngCall("scanlines", "None", Png_scanlines(Self))

GetPixels == \E y \in RowArgs : PngCall("pixels", y, scanline_pixels(Self, y))

GetPixel == \E xy \in PixelArgs : PngCall("getpixel", xy, getpixel(Self, xy))

GetWidth == PngCall("width", "None", Png_width(Self))

GetHeight == PngCall("height", "None", Png_height(Self))

NextImage ==
    \/ CreateEmptyPng
    \/ GetImagedata
    \/ SetImagedata
    \/ GetScanlines
    \/ GetPixels
    \/ GetPixel
    \/ GetWidth
    \/ GetHeight
    \/ ReadChunks
    \/ ReadBytes
    \/ ResetPng

SpecImage == InitImage /\ [][NextImage]_vars

----------------------------------------------------------------------------
(* properties of SpecImage *)

\* the types of the chunks of a list
ChunkTypes(list) == [i \in 1..Len(list) |-> PngChunk_type(list[i]).ret]

\* how many chunks of a list are IDAT chunks
IdatCount(list) == Cardinality({i \in 1..Len(list) : PngChunk_type(list[i]).ret = T_IDAT})

\* the raw bytes of the rows of a list
RowData(lines) == [i \in 1..Len(lines) |-> lines[i].data.v]

\* Png.get_original: a Png built again from the constructor's bytes
get_original(p) == Png_init(p.filebytes)

\* C16: create_empty_png() yields a Png whose bytes begin with the 8-byte
\* signature and whose chunk list is exactly IHDR, IDAT, IEND in that order,
\* with width = height = 1, colour type 0, bit depth 1, an empty trailer, and
\* check_crc() true for all three chunks.
Thm_C16 ==
    last.op = "create_empty_png" =>
        /\ Png_bytes(Self).err = "none"
        /\ PySlice(Png_bytes(Self).ret, 0, 8) = PNG_SIGNATURE
        /\ Png_chunks(Self).err = "none"
        /\ ChunkTypes(Png_chunks(Self).ret) = <<T_IHDR, T_IDAT, T_IEND>>
        /\ Png_width(Self).err = "none" /\ Png_width(Self).ret = 1
        /\ Png_height(Self).err = "none" /\ Png_height(Self).ret = 1
        /\ ihdr_getitem(Self, KeyS("colortype_code")).err = "none"
        /\ ihdr_getitem(Self, KeyS("colortype_code")).ret = 0
        /\ ihdr_getitem(Self, KeyS("bit_depth")).err = "none"
        /\ ihdr_getitem(Self, KeyS("bit_depth")).ret = 1
        /\ Png_extra_data(Self).err = "none" /\ Png_extra_data(Self).ret = <<>>
        /\ \A i \in 1..Len(Png_chunks(Self).ret) : check_crc(Png_chunks(Self).ret[i])

\* create_empty_png() has just returned its Png, not parsed yet
Wit_C16 == last.op = "create_empty_png" /\ last.err = "none" /\ chunks.none

\* C11 as stated: when the stream written by `imagedata = d` is no longer than
\* the payloads of the IDAT chunks together, the number of chunks and of IDAT
\* chunks is unchanged; an IDAT is inserted only for a non-empty remainder.
Orig_C11 ==
    (last.op = "imagedata_set" /\ last.err = "none") =>
        \E old \in {Png_chunks(pre).ret}, stream \in {compress(last.arg.v)} :
            /\ Len(stream) <= Len(ChunkData(get_chunks_by_type(pre, T_IDAT).ret)) =>
                  /\ Len(chunks.v) = Len(old)
                  /\ IdatCount(chunks.v) = IdatCount(old)
            /\ Len(chunks.v) > Len(old) =>
                  Len(stream) > Len(ChunkData(get_chunks_by_type(pre, T_IDAT).ret))

\* C12 as stated: once the rows were read, a write to imagedata or reset()
\* drops them: the rows read next are those of the image data of that moment.
Orig_C12 ==
    (last.op \in {"scanlines", "pixels"} /\ last.err = "none"
        /\ decode_scanlines(Self).err = "none") =>
        RowData(scanlines.v) = RowData(decode_scanlines(Self).ret)

\* C17 as stated: getpixel((x, y)) returns a pixel only for 0 <= x < width and
\* 0 <= y < height; for every other (x, y) it fails with the out-of-range error.
Orig_C17 ==
    (last.op = "getpixel" /\ last.arg.kind = "tuple" /\ Png_size(Self).err = "none") =>
        \E x \in {last.arg.t[1]}, y \in {last.arg.t[2]}, size \in {Png_size(Self).ret} :
            IF 0 <= x /\ x < size[1] /\ 0 <= y /\ y < size[2]
            THEN TRUE
            ELSE last.err = "IndexError"

\* C19 as stated: after edits, reset() restores what the constructor's bytes
\* parse to: the chunk list, the trailer and the bytes are those of a Png built
\* again from the same input, and the pixels read afterwards are its pixels.
Orig_C19 ==
    (last.op = "reset" /\ last.err = "none") =>
        /\ chunks = read_chunks(get_original(Self)).p.chunks
        /\ file_end = read_chunks(get_original(Self)).p.file_end
        /\ Png_bytes(Self).ret = Png_bytes(get_original(Self)).ret
        /\ \A y \in {0, 1} :
              /\ scanline_pixels(Self, y).err = scanline_pixels(get_original(Self), y).err
              /\ scanline_pixels(Self, y).ret = scanline_pixels(get_original(Self), y).ret

----------------------------------------------------------------------------
(* SpecScan: rows built from data or from content, read and written through *)
(* data, unfiltered, pixels and filtertype                                  *)

\* one row from data, one row from content, or a row and an Up-filtered row
\* under it; one channel of 8 bits
ScanRows(e) ==
    {<<ScanLine_init(1, 8, <<1, 5, 6>>, e)>>,
     <<ScanLine_init_content(1, 8, 1, <<<<3>>, <<4>>>>, e)>>,
     <<ScanLine_init(1, 8, <<0, 5, 6>>, e), ScanLine_init(1, 8, <<2, 1, 1>>, e)>>}

RowDataArgs == {BytesV(<<0, 7, 9>>), WrongV}
UnfilteredArgs == {BytesV(<<16, 32>>), BytesV(<<1>>)}
PixelsArgs == {TupVal(<<<<3>>, <<4>>>>), TupVal(<<<<1>>, <<2, 3>>>>), WrongVal}

InitScan ==
    /\ ChunkIdle
    /\ filebytes = <<>>
    /\ chunks = None
    /\ file_end = None
    /\ edit \in BOOLEAN
    /\ \E rows \in ScanRows(edit) : scanlines = Some(rows)
    /\ last = NoCall
    /\ ret = "None"
    /\ pre = scanlines.v

ReadPixels ==
    \E i \in 1..Len(scanlines.v) :
        LineCall("pixels", <<i>>, ScanLine_pixels(scanlines.v, i))

\* the writes go to the first row: the row under it is filtered against it
WriteData ==
    \E i \in {1}, v \in RowDataArgs :
        LineCall("data_set", <<i, v>>, ScanLine_data_set(scanlines.v, i, v))

WriteUnfiltered ==
    \E i \in {1}, v \in UnfilteredArgs :
        LineCall("unfiltered_set", <<i, v>>, ScanLine_unfiltered_set(scanlines.v, i, v))

WritePixels ==
    \E i \in {1}, v \in PixelsArgs :
        LineCall("pixels_set", <<i, v>>, ScanLine_pixels_set(scanlines.v, i, v))

NextScan ==
    \/ GetUnfiltered
    \/ GetFiltertype
    \/ GetData
    \/ ReadPixels
    \/ SetFiltertype
    \/ WriteData
    \/ WriteUnfiltered
    \/ WritePixels

SpecScan == InitScan /\ [][NextScan]_vars

----------------------------------------------------------------------------
(* properties of SpecLine and SpecScan: the filters and the caches of a row *)

\* the Paeth predictor as the PNG standard words it
PaethPredictor(a, b, c) ==
    LET p == a + b - c
        pa == Abs(p - a)
        pb == Abs(p - b)
        pc == Abs(p - c)
    IN IF pa <= pb /\ pa <= pc THEN a ELSE IF pb <= pc THEN b ELSE c

\* what filter type f adds to byte k (from 1) of a row: u is the unfiltered
\* row, up the unfiltered row above it (<<>> when there is none), s the stride
FilterTerm(f, u, up, s, k) ==
    LET a == IF k - s < 1 THEN 0 ELSE u[k - s]
        b == IF up = <<>> THEN 0 ELSE up[k]
        c == IF k - s < 1 \/ up = <<>> THEN 0 ELSE up[k - s]
    IN CASE f = 0 -> 0
         [] f = 1 -> a
         [] f = 2 -> b
         [] f = 3 -> (a + b) \div 2
         [] f = 4 -> PaethPredictor(a, b, c)

\* the unfiltered bytes of the row above row i, <<>> for the first row
Above(l, i) == IF i > 1 THEN ScanLine_unfiltered(l, i - 1).ret ELSE <<>>

\* C23: for a row with filter type f in 0..4 and stride s, each unfiltered
\* byte i is (filtered[i] + X) mod 256 with X = 0, a, b, floor((a+b)/2),
\* Paeth(a,b,c) for f = 0..4, a = unfiltered[i-s], b = previous.unfiltered[i],
\* c = previous.unfiltered[i-s], each 0 where the byte does not exist.
Thm_C23 ==
    (/\ last.op = "unfiltered"
     /\ \E f \in 0..4 : RawRow(pre, last.arg[1], f)
     /\ pre[last.arg[1]].unfiltered_dirty
     /\ SamePrevious(pre, last.arg[1]))
        => /\ last.err = "none"
           /\ \E i \in {last.arg[1]} :
                /\ Len(ret) = Len(pre[i].data.v) - 1
                /\ \A k \in 1..Len(ret) :
                      ret[k] = (pre[i].data.v[k + 1]
                                  + FilterTerm(pre[i].data.v[1], ret, Above(pre, i),
                                               workingsize(pre[i]), k)) % 256

\* the second row, Paeth-filtered with two bytes of one channel, was decoded
\* over a Sub-filtered first row
Wit_C23 ==
    /\ last.op = "unfiltered"
    /\ last.arg = <<2>>
    /\ RawRow(pre, 2, 4)
    /\ pre[2].unfiltered_dirty
    /\ SamePrevious(pre, 2)
    /\ Len(pre[2].data.v) = 3
    /\ pre[1].data.v[1] = 1
    /\ pre[2].channelcount = 1
    /\ last.err = "none"

\* the reads of row i of l, one after the other
ReadAll(l, i) ==
    Bind(ScanLine_data(l, i), LAMBDA d :
    Bind(ScanLine_unfiltered(d.l, i), LAMBDA u :
    Bind(ScanLine_pixels(u.l, i), LAMBDA px :
    Bind(ScanLine_filtertype(px.l, i), LAMBDA f :
        [ok |-> d.err = "none" /\ u.err = "none" /\ px.err = "none" /\ f.err = "none",
         data |-> d.ret, unfiltered |-> u.ret, pixels |-> px.ret, filtertype |-> f.ret]))))

\* the bytes u filtered with type f against the row above
Refiltered(f, u, up, s) == [k \in 1..Len(u) |-> (u[k] - FilterTerm(f, u, up, s, k)) % 256]

\* the bytes d unfiltered against the row above
Unfiltered(d, up, s) ==
    LET u[k \in 0..(Len(d) - 1)] ==
            IF k = 0 THEN <<>>
            ELSE Append(u[k - 1],
                        (d[k + 1] + FilterTerm(d[1], u[k - 1] \o <<0>>, up, s, k)) % 256)
    IN u[Len(d) - 1]

\* C21 as stated: on a row of bit depth 8, once data, unfiltered or pixels was
\* written, the reads of data, unfiltered, pixels and filtertype return values
\* derived from the written value (data = filter byte and the re-filtered
\* unfiltered bytes, pixels = the unfiltered bytes grouped by channel count,
\* filtertype = data[0]), never a value cached before the write.
Orig_C21 ==
    \A i \in {1} : \E r \in {ReadAll(scanlines.v, i)}, s \in {workingsize(scanlines.v[i])} :
        /\ (last.op = "data_set" /\ last.err = "none") =>
              /\ r.ok
              /\ r.data = last.arg[2].v
              /\ r.filtertype = r.data[1]
              /\ r.unfiltered = Unfiltered(r.data, <<>>, s)
              /\ r.pixels = group(r.unfiltered, scanlines.v[i].channelcount)
        /\ (last.op = "unfiltered_set" /\ last.err = "none") =>
              /\ r.ok
              /\ r.unfiltered = last.arg[2].v
              /\ r.data = <<r.filtertype>> \o Refiltered(r.filtertype, r.unfiltered, <<>>, s)
              /\ r.pixels = group(r.unfiltered, scanlines.v[i].channelcount)
        /\ (last.op = "pixels_set" /\ last.err = "none") =>
              /\ r.ok
              /\ r.pixels = last.arg[2].t
              /\ r.unfiltered = flatten(r.pixels)
              /\ r.data = <<r.filtertype>> \o Refiltered(r.filtertype, r.unfiltered, <<>>, s)

\* C22 as stated: no sequence of reads and writes of data, unfiltered, pixels
\* and filtertype on a row built from data or from content leaves data,
\* unfiltered and pixels all dirty, and reading unfiltered never fails with
\* the internal 'Unable to unfilter scanline' error.
Orig_C22 ==
    /\ \A i \in 1..Len(scanlines.v) :
          ~(/\ scanlines.v[i].data_dirty
            /\ scanlines.v[i].unfiltered_dirty
            /\ scanlines.v[i].pixels_dirty)
    /\ last.op = "unfiltered" => last.err # "Exception"

\* C30 as stated: for a row r >= 1 with filter type 2, 3 or 4, after a write
\* to the unfiltered bytes or the pixels of row r-1, data[1:] of row r is the
\* re-filtering of row r's unfiltered bytes against the unfiltered bytes row
\* r-1 has now.
Orig_C30 ==
    (/\ Len(scanlines.v) = 2
     /\ last.op \in {"unfiltered_set", "pixels_set"}
     /\ last.err = "none"
     /\ last.arg[1] = 1) =>
        \E up \in {ScanLine_unfiltered(scanlines.v, 1)}, r \in {ReadAll(scanlines.v, 2)} :
            (up.err = "none" /\ r.ok /\ r.filtertype \in {2, 3, 4}) =>
                PyFrom(r.data, 1) =
                    Refiltered(r.filtertype, r.unfiltered, up.ret, workingsize(scanlines.v[2]))

----------------------------------------------------------------------------
(* SpecValid: IHDR and tEXt chunks of every shape, asked whether they are *)
(* valid, read and written through their handlers                         *)

\* an IHDR payload of 13 bytes: a 1 x 1 image of the given bit depth and
\* colour type code
HeaderData(depth, code) == packI(1) \o packI(1) \o <<depth, code, 0, 0, 0>>

\* n times the letter K
Letters(n) == [i \in 1..n |-> 75]

ValidSlices ==
    {Frame(T_IHDR, HeaderData(d, ct), FALSE) :
        d \in {1, 3, 8, 16}, ct \in {0, 1, 2, 3, 4, 5, 6, 7, 255}}
    \cup {Frame(T_tEXt, Letters(n) \o <<0, 84>>, FALSE) : n \in {0, 1, 78, 79, 80}}
    \cup {Frame(T_tEXt, <<75, 84>>, FALSE), Frame(T_tEXt, <<75, 0, 84, 0>>, FALSE)}

ValidKeys == {KeyS("keyword"), KeyS("text"), KeyS("bit_depth"), KeyS("colortype_code")}

ValidArgs ==
    {<<KeyS("colortype_code"), IntVal(1)>>, <<KeyS("colortype_code"), IntVal(6)>>,
     <<KeyS("bit_depth"), IntVal(8)>>, <<KeyS("keyword"), StrVal(Letters(79))>>,
     <<KeyS("keyword"), StrVal(Letters(2))>>}

InitValid ==
    /\ \E b \in ValidSlices : chunk = PngChunk_init(0, b, TRUE, FALSE)
    /\ PngIdle
    /\ last = NoCall
    /\ ret = "None"
    /\ pre = chunk

CheckValid == ChunkCall("is_valid", "None", is_valid(chunk))
ReadField == \E k \in ValidKeys : ChunkCall("getitem", k, getitem(chunk, k))
WriteField == \E a \in ValidArgs : ChunkCall("setitem", a, setitem(chunk, a[1], a[2]))

NextValid ==
    \/ CheckValid
    \/ ReadField
    \/ WriteField

SpecValid == InitValid /\ [][NextValid]_vars

----------------------------------------------------------------------------
(* properties of SpecValid and SpecQuery: what the handlers accept *)

IsOfType(c, t) == PngChunk_type(c).err = "none" /\ PngChunk_type(c).ret = t

\* the bit depths the PNG standard allows for a colour type code
AllowedDepths(code) ==
    CASE code = 0 -> {1, 2, 4, 8, 16}
      [] code = 3 -> {1, 2, 4, 8}
      [] code \in {2, 4, 6} -> {8, 16}
      [] OTHER -> {}

\* C24 as stated: a tEXt chunk is valid exactly when its payload holds exactly
\* one NUL byte and the keyword before it is at most 79 bytes long; a payload
\* with a 79-byte keyword is reported valid by is_valid() and is readable by
\* get, one with an 80-byte keyword is not.
Orig_C24 ==
    (IsOfType(pre, T_tEXt) /\ Len(PngChunk_data(pre)) >= 2) =>
        /\ last.op = "is_valid" =>
              /\ last.err = "none"
              /\ ret = (count0(PngChunk_data(pre)) = 1 /\ find0(PngChunk_data(pre)) <= 79)
        /\ (last.op = "getitem" /\ last.arg \in {KeyS("keyword"), KeyS("text")}) =>
              ((last.err = "none") <=>
                    (count0(PngChunk_data(pre)) = 1 /\ find0(PngChunk_data(pre)) <= 79))

\* C25 as stated: for every 13-byte IHDR payload is_valid() returns a boolean
\* and never raises; it returns true exactly when the colour type code is one
\* of 0, 2, 3, 4, 6 and the bit depth is allowed for it, and false for every
\* other payload, the colour type codes 1, 5 and 7..255 included.
Orig_C25 ==
    (last.op = "is_valid" /\ IsOfType(pre, T_IHDR) /\ Len(PngChunk_data(pre)) = 13) =>
        /\ last.err = "none"
        /\ ret = (PngChunk_data(pre)[9] \in AllowedDepths(PngChunk_data(pre)[10]))

\* C26 as stated: on a PLTE chunk of n = len / 3 entries get(i) and set(i, v)
\* succeed only for 0 <= i < n, fail for any other index, and no set, failed
\* or not, changes the length of the payload.
Orig_C26 ==
    (IsOfType(pre, T_PLTE) /\ last.op \in {"getitem", "setitem"}) =>
        LET n == Len(PngChunk_data(pre)) \div 3
            key == IF last.op = "getitem" THEN last.arg ELSE last.arg[1]
        IN /\ last.err = "none" => (key.kind = "int" /\ key.i >= 0 /\ key.i < n)
           /\ last.op = "setitem" => Len(PngChunk_data(chunk)) = Len(PngChunk_data(pre))

----------------------------------------------------------------------------
(* SpecOwned: a Png, editable or not, whose IDAT chunks are at any place; *)
(* its image data is written, and its chunks and rows are written by the  *)
(* caller                                                                 *)

\* png.chunks[i].data = value, written by the caller
chunk_write(p, i, value) ==
    Bind(Png_chunks(p), LAMBDA r :
        IF r.err # "none" THEN r
        ELSE IF PyItem(r.ret, i) = 0 THEN PRaise(r.p, "IndexError")
        ELSE Bind(data_set(r.ret[PyItem(r.ret, i)], value), LAMBDA w :
                [p |-> [r.p EXCEPT !.chunks = Some([r.ret EXCEPT ![PyItem(r.ret, i)] = w.c])],
                 err |-> w.err, ret |-> "None"]))

\* png.scanlines[y].unfiltered = value, written by the caller
row_write(p, y, value) ==
    Bind(Png_scanlines(p), LAMBDA s :
        IF s.err # "none" THEN s
        ELSE IF PyItem(s.ret, y) = 0 THEN PRaise(s.p, "IndexError")
        ELSE Bind(ScanLine_unfiltered_set(s.ret, PyItem(s.ret, y), value), LAMBDA w :
                [p |-> [s.p EXCEPT !.scanlines = Some(w.l)], err |-> w.err, ret |-> "None"]))

TextChunk == Frame(T_tEXt, <<75, 0, 84>>, TRUE)

\* the stream of the all-zero image in one IDAT, in no IDAT at all (the file
\* holds no image data), in two IDAT chunks with a tEXt between them, and in
\* one IDAT before the IHDR
OwnedFiles ==
    {ImageFile(<<0, 0, 0, 0, 0, 0>>, 0),
     PNG_SIGNATURE \o ImageHeader \o TextChunk \o Frame(T_IEND, <<>>, TRUE),
     PNG_SIGNATURE \o ImageHeader
        \o Frame(T_IDAT, PySlice(compress(<<0, 0, 0, 0, 0, 0>>), 0, 5), TRUE)
        \o TextChunk
        \o Frame(T_IDAT, PyFrom(compress(<<0, 0, 0, 0, 0, 0>>), 5), TRUE)
        \o Frame(T_IEND, <<>>, TRUE),
     PNG_SIGNATURE \o Frame(T_IDAT, compress(<<0, 0, 0, 0, 0, 0>>), TRUE)
        \o ImageHeader \o Frame(T_IEND, <<>>, TRUE)}

\* the last chunk (the IEND) and a chunk that is not there
ChunkWrites == {<<-1, BytesV(<<7>>)>>, <<9, BytesV(<<7>>)>>}
RowWrites == {<<0, BytesV(<<16, 32>>)>>, <<1, BytesV(<<16, 32>>)>>}

InitOwned ==
    /\ filebytes \in OwnedFiles
    /\ edit \in BOOLEAN
    /\ chunks = None
    /\ file_end = None
    /\ scanlines = None
    /\ ChunkIdle
    /\ last = NoCall
    /\ ret = "None"
    /\ pre = Self

WriteChunk == \E a \in ChunkWrites : PngCall("chunk_write", a, chunk_write(Self, a[1], a[2]))

WriteRow == \E a \in RowWrites : PngCall("row_write", a, row_write(Self, a[1], a[2]))

NextOwned ==
    \/ ReadChunks
    \/ GetImagedata
    \/ SetImagedata
    \/ GetScanlines
    \/ WriteChunk
    \/ WriteRow

SpecOwned == InitOwned /\ [][NextOwned]_vars

----------------------------------------------------------------------------
(* properties of SpecOwned and SpecPng *)

\* the bytes of the chunks of a list that are not IDAT chunks, in their order
NonIdat(list) ==
    LET rest == SelectSeq(list, LAMBDA c : PngChunk_type(c).ret # T_IDAT)
    IN [i \in 1..Len(rest) |-> rest[i].bytes]

\* C27 as stated: on a Png constructed with edit=false every chunk of `chunks`
\* and every row of `scanlines`, row 0 and the later rows alike, rejects
\* writes with a read-only error, so bytes does not change.
Orig_C27 ==
    (~edit /\ last.op \in {"chunk_write", "row_write"}) =>
        /\ last.err # "none"
        /\ Png_bytes(Self).ret = Png_bytes(pre).ret

\* C28 as stated: add_chunk(c, index=i) on a Png not parsed yet parses the
\* input first and inserts c at position i: the chunk list is the one the same
\* call gives after `chunks` was read.
Orig_C28 ==
    (last.op = "add_chunk" /\ ~last.arg.none /\ pre.chunks.none
        /\ Png_chunks(pre).err = "none") =>
        /\ last.err = "none"
        /\ chunks = add_chunk(Png_chunks(pre).p, chunk, last.arg).p.chunks

\* C29: after `imagedata = d` on a Png with any number of IDAT chunks (none
\* included) at any places, the payloads of the IDAT chunks, in the order of
\* the chunks, make the deflated stream of d, imagedata reads back d, and the
\* chunks that are not IDAT chunks are the same bytes in the same order.
Thm_C29 ==
    (last.op = "imagedata_set" /\ last.arg.kind = "bytes") =>
        /\ last.err = "none"
        /\ get_chunks_by_type(Self, T_IDAT).err = "none"
        /\ ChunkData(get_chunks_by_type(Self, T_IDAT).ret) = compress(last.arg.v)
        /\ Png_imagedata(Self).err = "none"
        /\ Png_imagedata(Self).ret = last.arg.v
        /\ NonIdat(chunks.v) = NonIdat(Png_chunks(pre).ret)

\* the stream was longer than the two IDAT chunks, which a tEXt separates,
\* could hold: its end is in a third IDAT
Wit_C29 ==
    /\ last.op = "imagedata_set" /\ last.err = "none"
    /\ ChunkTypes(Png_chunks(pre).ret) = <<T_IHDR, T_IDAT, T_tEXt, T_IDAT, T_IEND>>
    /\ ChunkTypes(chunks.v) = <<T_IHDR, T_IDAT, T_tEXt, T_IDAT, T_IDAT, T_IEND>>
    /\ PngChunk_data(chunks.v[5]) # <<>>

====
